---- MODULE Spec2Model ----
(***************************************************************************)
(* Model of the response-interpretation pipeline of llm2git                *)
(* (src/llm2git/processor.py, class LLMResponseProcessor).                 *)
(*                                                                         *)
(* A Python str is a sequence of characters; a character is a one-letter   *)
(* TLA+ string, and the characters that cannot be written inside a TLA+    *)
(* string carry a name (NL, DQ, SQ, BQ, BS, TAB, ARROW).  A Python value   *)
(* is a tagged record [t |-> tag, v |-> payload] with tag "str", "int",    *)
(* "list", "dict", "bool", "none" or "datetime"; the payload of a dict is  *)
(* a function whose domain is the set of its keys.  A call that can raise  *)
(* returns [t |-> "raise", v |-> <exception name>] instead of a value.     *)
(*                                                                         *)
(* The commands process (src/llm2git/main.py) and convert                  *)
(* (src/git2llm/main.py, src/git2llm/converter.py) are modelled on top of  *)
(* it; the validator, the git layer, the analyzer and the sanitizer are    *)
(* not part of the sources and act as the environment.                     *)
(***************************************************************************)
EXTENDS Integers, Sequences, FiniteSets, TLC

VARIABLES
    blocks,         \* the fragments the response file is made of (indices into Pool)
    content,        \* the decoded text of the response file
    yaml_ok,        \* whether yaml.safe_load accepts content
    pc,             \* position inside the running call
    called,         \* the method under call
    response_type,  \* the tag _detect_response_type returned
    parser_used,    \* the shape parser parse_response dispatched to
    parsed_data,    \* the record parse_response has built so far
    result,         \* what the call returned, or the exception it raised
    args,           \* the options of the command that runs, None when none does
    validation_results,  \* what the validator returned, None before it is called
    branch_name,    \* process: the branch the changes go to
    applied_patches,     \* process: the patches applied so far
    attempts,       \* process: the calls of git_ops.apply_patch made so far
    repo,           \* process: what the git layer did to the repository
    written,        \* the files the command wrote
    tree,           \* convert: the files of the repository
    stats,          \* convert: the converter's statistics
    extracted_files, \* convert: the files the converter extracted
    analysis,       \* convert: what the project analyzer returned
    walked          \* convert: how many files of the repository os.walk has visited

\* the state of the commands process and convert
commands ==
    <<args, validation_results, branch_name, applied_patches, attempts, repo, written, tree,
      stats, extracted_files, analysis, walked>>

vars ==
    <<blocks, content, yaml_ok, pc, called, response_type, parser_used, parsed_data, result,
      commands>>

-----------------------------------------------------------------------------
(* Characters *)

NL == "NL"
DQ == "DQ"
SQ == "SQ"
BQ == "BQ"
BS == "BS"
TAB == "TAB"
ARROW == "ARROW"

WS == {" ", NL, TAB}

Digits == {"0", "1", "2", "3", "4", "5", "6", "7", "8", "9"}

LowerCase == {"a", "b", "c", "d", "e", "f", "g", "h", "i", "j", "k", "l", "m",
              "n", "o", "p", "q", "r", "s", "t", "u", "v", "w", "x", "y", "z"}

UpperToLower == [c \in {"A", "B", "C", "D", "E", "F", "G", "H", "I", "J", "K", "L", "M",
                        "N", "O", "P", "Q", "R", "S", "T", "U", "V", "W", "X", "Y", "Z"} |->
    CASE c = "A" -> "a" [] c = "B" -> "b" [] c = "C" -> "c" [] c = "D" -> "d"
      [] c = "E" -> "e" [] c = "F" -> "f" [] c = "G" -> "g" [] c = "H" -> "h"
      [] c = "I" -> "i" [] c = "J" -> "j" [] c = "K" -> "k" [] c = "L" -> "l"
      [] c = "M" -> "m" [] c = "N" -> "n" [] c = "O" -> "o" [] c = "P" -> "p"
      [] c = "Q" -> "q" [] c = "R" -> "r" [] c = "S" -> "s" [] c = "T" -> "t"
      [] c = "U" -> "u" [] c = "V" -> "v" [] c = "W" -> "w" [] c = "X" -> "x"
      [] c = "Y" -> "y" [] c = "Z" -> "z"]

WordChars == LowerCase \cup DOMAIN UpperToLower \cup Digits \cup {"_"}

LowerChar(c) == IF c \in DOMAIN UpperToLower THEN UpperToLower[c] ELSE c

\* str.lower()
Lower(s) == [i \in 1..Len(s) |-> LowerChar(s[i])]

-----------------------------------------------------------------------------
(* Strings *)

Min(S) == CHOOSE x \in S : \A y \in S : x <= y

Max(S) == CHOOSE x \in S : \A y \in S : x >= y

\* s[i:j] of Python with 1-based inclusive bounds; empty when j < i
Sub(s, i, j) == IF j < i THEN <<>> ELSE SubSeq(s, i, j)

\* the literal lit stands in s at position i
HasAt(s, i, lit) ==
    /\ i >= 1
    /\ i + Len(lit) - 1 <= Len(s)
    /\ \A k \in 1..Len(lit) : s[i + k - 1] = lit[k]

\* the same, ignoring case (re.IGNORECASE); lit is given in lower case
HasAtCI(s, i, lit) ==
    /\ i >= 1
    /\ i + Len(lit) - 1 <= Len(s)
    /\ \A k \in 1..Len(lit) : LowerChar(s[i + k - 1]) = lit[k]

\* position of the first occurrence of lit in s at or after from, 0 when none
Find(s, lit, from) ==
    LET hits == {i \in from..(Len(s) - Len(lit) + 1) : HasAt(s, i, lit)}
    IN  IF hits = {} THEN 0 ELSE Min(hits)

\* lit in s
Contains(s, lit) == Find(s, lit, 1) # 0

\* first position at or after i that holds no whitespace (Len(s)+1 when none)
SkipWS(s, i) == Min({j \in i..(Len(s) + 1) : j = Len(s) + 1 \/ s[j] \notin WS})

\* first position at or after i that holds a newline (Len(s)+1 when none)
LineEnd(s, i) == Min({j \in i..(Len(s) + 1) : j = Len(s) + 1 \/ s[j] = NL})

\* position i is the start of a line (what ^ matches under re.MULTILINE)
AtLineStart(s, i) == i = 1 \/ (i >= 2 /\ i <= Len(s) + 1 /\ s[i - 1] = NL)

\* position i is where $ matches under re.MULTILINE: before a newline or at the end
AtLineEnd(s, i) == i = Len(s) + 1 \/ (i >= 1 /\ i <= Len(s) /\ s[i] = NL)

\* str.strip()
Strip(s) ==
    LET keep == {i \in 1..Len(s) : s[i] \notin WS}
    IN  IF keep = {} THEN <<>> ELSE SubSeq(s, Min(keep), Max(keep))

\* str.split('\n')
RECURSIVE SplitLines(_)
SplitLines(s) ==
    LET e == LineEnd(s, 1)
    IN  IF e > Len(s) THEN <<s>>
        ELSE <<Sub(s, 1, e - 1)>> \o SplitLines(Sub(s, e + 1, Len(s)))

\* '\n'.join(parts)
RECURSIVE JoinLines(_)
JoinLines(parts) ==
    IF parts = <<>> THEN <<>>
    ELSE IF Len(parts) = 1 THEN parts[1]
    ELSE parts[1] \o <<NL>> \o JoinLines(Tail(parts))

-----------------------------------------------------------------------------
(* Python values *)

PyStr(s) == [t |-> "str", v |-> s]

PyInt(n) == [t |-> "int", v |-> n]

PyList(xs) == [t |-> "list", v |-> xs]

PyDict(f) == [t |-> "dict", v |-> f]

Raise(e) == [t |-> "raise", v |-> e]

EmptyDict == PyDict(<<>>)

\* d[k] = x on a dict payload
SetItem(f, k, x) == [j \in (DOMAIN f) \cup {k} |-> IF j = k THEN x ELSE f[j]]

\* dict.update(other) on dict payloads
Update(f, g) == [j \in (DOMAIN f) \cup (DOMAIN g) |-> IF j \in DOMAIN g THEN g[j] ELSE f[j]]

NoMatch == [ok |-> FALSE]

\* of the matches ms, indexed by the position they start at, those a scan
\* from left to right keeps: the first among the starts in rest, then the
\* first that starts at or after its end e, and so on
RECURSIVE LeftToRight(_, _)
LeftToRight(ms, rest) ==
    IF rest = {} THEN <<>>
    ELSE <<ms[Min(rest)]>> \o LeftToRight(ms, {j \in rest : j >= ms[Min(rest)].e})

WithoutOverlap(ms) == LeftToRight(ms, {j \in DOMAIN ms : ms[j].ok})

\* re.finditer / re.findall: the matches of a pattern in s, left to right and
\* without overlap; MatchAt(s, i) is the match that starts at i (NoMatch when
\* none) and carries the position e that follows it
FindAll(s, MatchAt(_, _)) == WithoutOverlap([j \in 1..Len(s) |-> MatchAt(s, j)])

-----------------------------------------------------------------------------
(* The string literals of the program *)

K_changes == <<"c", "h", "a", "n", "g", "e", "s">>

K_patches == <<"p", "a", "t", "c", "h", "e", "s">>

K_commits == <<"c", "o", "m", "m", "i", "t", "s">>

K_metadata == <<"m", "e", "t", "a", "d", "a", "t", "a">>

K_summary == <<"s", "u", "m", "m", "a", "r", "y">>

K_details == <<"d", "e", "t", "a", "i", "l", "s">>

K_sections == <<"s", "e", "c", "t", "i", "o", "n", "s">>

K_code_blocks == <<"c", "o", "d", "e", "_", "b", "l", "o", "c", "k", "s">>

K_raw_content == <<"r", "a", "w", "_", "c", "o", "n", "t", "e", "n", "t">>

K_implementation_plan ==
    <<"i", "m", "p", "l", "e", "m", "e", "n", "t", "a", "t", "i", "o", "n", "_", "p", "l", "a", "n">>

K_response_file == <<"r", "e", "s", "p", "o", "n", "s", "e", "_", "f", "i", "l", "e">>

K_response_type == <<"r", "e", "s", "p", "o", "n", "s", "e", "_", "t", "y", "p", "e">>

K_parsed_at == <<"p", "a", "r", "s", "e", "d", "_", "a", "t">>

K_content_length == <<"c", "o", "n", "t", "e", "n", "t", "_", "l", "e", "n", "g", "t", "h">>

K_content == <<"c", "o", "n", "t", "e", "n", "t">>

K_file == <<"f", "i", "l", "e">>

K_format == <<"f", "o", "r", "m", "a", "t">>

K_language == <<"l", "a", "n", "g", "u", "a", "g", "e">>

K_file_path == <<"f", "i", "l", "e", "_", "p", "a", "t", "h">>

K_change_type == <<"c", "h", "a", "n", "g", "e", "_", "t", "y", "p", "e">>

K_description == <<"d", "e", "s", "c", "r", "i", "p", "t", "i", "o", "n">>

K_source == <<"s", "o", "u", "r", "c", "e">>

K_unknown == <<"u", "n", "k", "n", "o", "w", "n">>

K_unified_diff == <<"u", "n", "i", "f", "i", "e", "d", "_", "d", "i", "f", "f">>

K_simple_replace == <<"s", "i", "m", "p", "l", "e", "_", "r", "e", "p", "l", "a", "c", "e">>

K_text == <<"t", "e", "x", "t">>

K_modify == <<"m", "o", "d", "i", "f", "y">>

K_text_extraction == <<"t", "e", "x", "t", "_", "e", "x", "t", "r", "a", "c", "t", "i", "o", "n">>

K_json == <<"j", "s", "o", "n">>

K_yaml == <<"y", "a", "m", "l">>

K_mixed == <<"m", "i", "x", "e", "d">>

K_markdown == <<"m", "a", "r", "k", "d", "o", "w", "n">>

K_success == <<"s", "u", "c", "c", "e", "s", "s">>

K_error == <<"e", "r", "r", "o", "r">>

K_valid_patches == <<"v", "a", "l", "i", "d", "_", "p", "a", "t", "c", "h", "e", "s">>

K_applied_patches == <<"a", "p", "p", "l", "i", "e", "d", "_", "p", "a", "t", "c", "h", "e", "s">>

K_branch == <<"b", "r", "a", "n", "c", "h">>

K_reports == <<"r", "e", "p", "o", "r", "t", "s">>

K_implementation_report == <<"i", "m", "p", "l", "e", "m", "e", "n", "t", "a", "t", "i", "o", "n", "_", "r",
      "e", "p", "o", "r", "t">>

K_summary_json == <<"s", "u", "m", "m", "a", "r", "y", "_", "j", "s", "o", "n">>

K_commit_script == <<"c", "o", "m", "m", "i", "t", "_", "s", "c", "r", "i", "p", "t">>

K_valid == <<"v", "a", "l", "i", "d">>

K_invalid == <<"i", "n", "v", "a", "l", "i", "d">>

K_auto == <<"a", "u", "t", "o">>

K_llm_changes == <<"l", "l", "m", "-", "c", "h", "a", "n", "g", "e", "s">>

K_llm_slash == <<"l", "l", "m", "/">>

K_no_changes_found == <<"N", "o", " ", "c", "h", "a", "n", "g", "e", "s", " ", "f", "o", "u", "n", "d">>

K_no_valid_patches == <<"N", "o", " ", "v", "a", "l", "i", "d", " ", "p", "a", "t", "c", "h", "e", "s">>

K_repo_path == <<"r", "e", "p", "o", "_", "p", "a", "t", "h">>

K_analysis == <<"a", "n", "a", "l", "y", "s", "i", "s">>

K_file_stats == <<"f", "i", "l", "e", "_", "s", "t", "a", "t", "s">>

K_config == <<"c", "o", "n", "f", "i", "g">>

K_max_file_size == <<"m", "a", "x", "_", "f", "i", "l", "e", "_", "s", "i", "z", "e">>

K_sanitization_enabled == <<"s", "a", "n", "i", "t", "i", "z", "a", "t", "i", "o", "n", "_", "e", "n", "a",
      "b", "l", "e", "d">>

K_docs_included == <<"d", "o", "c", "s", "_", "i", "n", "c", "l", "u", "d", "e", "d">>

K_output_dir == <<"o", "u", "t", "p", "u", "t", "_", "d", "i", "r">>

K_files == <<"f", "i", "l", "e", "s">>

K_total_files == <<"t", "o", "t", "a", "l", "_", "f", "i", "l", "e", "s">>

K_processed_files == <<"p", "r", "o", "c", "e", "s", "s", "e", "d", "_", "f", "i", "l", "e", "s">>

K_skipped_files == <<"s", "k", "i", "p", "p", "e", "d", "_", "f", "i", "l", "e", "s">>

K_skipped_size == <<"s", "k", "i", "p", "p", "e", "d", "_", "s", "i", "z", "e">>

K_total_size == <<"t", "o", "t", "a", "l", "_", "s", "i", "z", "e">>

K_start_time == <<"s", "t", "a", "r", "t", "_", "t", "i", "m", "e">>

K_end_time == <<"e", "n", "d", "_", "t", "i", "m", "e">>

K_size == <<"s", "i", "z", "e">>

K_type == <<"t", "y", "p", "e">>

K_is_documentation == <<"i", "s", "_", "d", "o", "c", "u", "m", "e", "n", "t", "a", "t", "i", "o", "n">>

K_path == <<"p", "a", "t", "h">>

K_codebase == <<"c", "o", "d", "e", "b", "a", "s", "e">>

K_documentation == <<"d", "o", "c", "u", "m", "e", "n", "t", "a", "t", "i", "o", "n">>

K_structure == <<"s", "t", "r", "u", "c", "t", "u", "r", "e">>
-----------------------------------------------------------------------------
(* json.loads, for the JSON texts built of objects, arrays, strings without *)
(* escapes, integers and true / false / null                                *)

\* the character at position i, "EOF" past the end
At(s, i) == IF i >= 1 /\ i <= Len(s) THEN s[i] ELSE "EOF"

JsonFail == [ok |-> FALSE, v |-> PyInt(0), e |-> 0]

\* a string literal opening at position i and closing at position close
JsonStringTo(s, i, close) ==
    IF At(s, i) # DQ \/ close = 0 THEN JsonFail
    ELSE IF \E k \in (i + 1)..(close - 1) : s[k] \in {NL, TAB, BS} THEN JsonFail
    ELSE [ok |-> TRUE, v |-> PyStr(Sub(s, i + 1, close - 1)), e |-> close + 1]

\* a string literal opening at position i
JsonString(s, i) == JsonStringTo(s, i, Find(s, <<DQ>>, i + 1))

RECURSIVE DecimalValue(_)
DecimalValue(ds) ==
    IF ds = <<>> THEN 0
    ELSE 10 * DecimalValue(SubSeq(ds, 1, Len(ds) - 1))
         + (CHOOSE n \in 0..9 : ToString(n) = ds[Len(ds)])

\* the integer whose sign stands at position i (when d > i) and whose digits
\* run from d to last
JsonDigits(s, i, d, last) ==
    [ok |-> TRUE,
     v |-> PyInt(IF d > i THEN 0 - DecimalValue(Sub(s, d, last))
                 ELSE DecimalValue(Sub(s, d, last))),
     e |-> last + 1]

\* an integer literal whose digits open at position d; a leading 0 ends it
JsonNumberFrom(s, i, d) ==
    IF At(s, d) \notin Digits THEN JsonFail
    ELSE JsonDigits(s, i, d,
                    IF At(s, d) = "0" THEN d
                    ELSE Min({j \in d..(Len(s) + 1) : At(s, j) \notin Digits}) - 1)

\* an integer literal opening at position i
JsonNumber(s, i) == JsonNumberFrom(s, i, IF At(s, i) = "-" THEN i + 1 ELSE i)

RECURSIVE JsonValue(_, _), JsonItems(_, _, _), JsonMembers(_, _, _)

\* the value that opens at position j
JsonValueAt(s, j) ==
    IF At(s, j) = "{" THEN
        (IF At(s, SkipWS(s, j + 1)) = "}"
         THEN [ok |-> TRUE, v |-> EmptyDict, e |-> SkipWS(s, j + 1) + 1]
         ELSE JsonMembers(s, SkipWS(s, j + 1), <<>>))
    ELSE IF At(s, j) = "[" THEN
        (IF At(s, SkipWS(s, j + 1)) = "]"
         THEN [ok |-> TRUE, v |-> PyList(<<>>), e |-> SkipWS(s, j + 1) + 1]
         ELSE JsonItems(s, j + 1, <<>>))
    ELSE IF At(s, j) = DQ THEN JsonString(s, j)
    ELSE IF At(s, j) \in Digits \cup {"-"} THEN JsonNumber(s, j)
    ELSE IF HasAt(s, j, <<"t", "r", "u", "e">>)
        THEN [ok |-> TRUE, v |-> [t |-> "bool", v |-> TRUE], e |-> j + 4]
    ELSE IF HasAt(s, j, <<"f", "a", "l", "s", "e">>)
        THEN [ok |-> TRUE, v |-> [t |-> "bool", v |-> FALSE], e |-> j + 5]
    ELSE IF HasAt(s, j, <<"n", "u", "l", "l">>)
        THEN [ok |-> TRUE, v |-> [t |-> "none", v |-> 0], e |-> j + 4]
    ELSE JsonFail

\* the value that opens at or after position i, whitespace skipped
JsonValue(s, i) == JsonValueAt(s, SkipWS(s, i))

\* the array whose items read so far are acc, item being the next one and j
\* the position of what follows it
JsonItemsAfter(s, acc, item, j) ==
    IF ~item.ok THEN JsonFail
    ELSE IF At(s, j) = "," THEN JsonItems(s, j + 1, Append(acc, item.v))
    ELSE IF At(s, j) = "]" THEN [ok |-> TRUE, v |-> PyList(Append(acc, item.v)), e |-> j + 1]
    ELSE JsonFail

JsonItem(s, acc, item) == JsonItemsAfter(s, acc, item, SkipWS(s, item.e))

\* the items of an array from position i on, acc holding the items read so far
JsonItems(s, i, acc) == JsonItem(s, acc, JsonValue(s, i))

\* the object whose members read so far are acc, key and val being the next
\* member and j the position of what follows it; a repeated key keeps its
\* last value
JsonMembersAfter(s, acc, key, val, j) ==
    IF ~val.ok THEN JsonFail
    ELSE IF At(s, j) = ","
        THEN JsonMembers(s, SkipWS(s, j + 1), SetItem(acc, key.v.v, val.v))
    ELSE IF At(s, j) = "}"
        THEN [ok |-> TRUE, v |-> PyDict(SetItem(acc, key.v.v, val.v)), e |-> j + 1]
    ELSE JsonFail

JsonMemberValue(s, acc, key, val) == JsonMembersAfter(s, acc, key, val, SkipWS(s, val.e))

JsonMember(s, acc, key) ==
    IF ~key.ok \/ At(s, SkipWS(s, key.e)) # ":" THEN JsonFail
    ELSE JsonMemberValue(s, acc, key, JsonValue(s, SkipWS(s, key.e) + 1))

\* the members of an object from the key at position i on, acc holding the
\* members read so far
JsonMembers(s, i, acc) == JsonMember(s, acc, JsonString(s, i))

\* the value r read from the start of s is the whole of s
JsonWhole(s, r) ==
    IF r.ok /\ SkipWS(s, r.e) = Len(s) + 1 THEN r.v ELSE Raise("JSONDecodeError")

\* json.loads(s): the parsed value, or JSONDecodeError
JsonLoads(s) == JsonWhole(s, JsonValue(s, 1))
-----------------------------------------------------------------------------
(* Format classifier *)

FENCE == <<BQ, BQ, BQ>>

\* content.strip().startswith('{') or content.strip().startswith('[')
LooksLikeJson(s) == At(Strip(s), 1) \in {"{", "["}

\* '---' in content[:100]
HasYamlMarker(s) == Contains(Sub(s, 1, Min({100, Len(s)})), <<"-", "-", "-">>)

\* re.search(r'```(?:json|patch|diff)', content)
HasTaggedFence(s) ==
    \E i \in 1..Len(s) :
        /\ HasAt(s, i, FENCE)
        /\ \/ HasAt(s, i + 3, <<"j", "s", "o", "n">>)
           \/ HasAt(s, i + 3, <<"p", "a", "t", "c", "h">>)
           \/ HasAt(s, i + 3, <<"d", "i", "f", "f">>)

\* first position at or after i that holds no '#'
SkipHashes(s, i) == Min({j \in i..(Len(s) + 1) : At(s, j) # "#"})

\* re.search(r'^#+\s+', content, re.MULTILINE)
HasHeading(s) ==
    \E i \in 1..Len(s) :
        /\ AtLineStart(s, i)
        /\ s[i] = "#"
        /\ At(s, SkipHashes(s, i)) \in WS

\* a YAML document that is certainly well formed: a '---' line followed by
\* lines of the form  key: plain words
IsFrontMatter(s) ==
    LET lines == SplitLines(s)
        plain(l) ==
            LET c == Find(l, <<":", " ">>, 1)
            IN  /\ c >= 2
                /\ c + 2 <= Len(l)
                /\ \A k \in 1..(c - 1) : l[k] \in WordChars
                /\ \A k \in (c + 2)..Len(l) : l[k] \in WordChars \cup {" ", "."}
                /\ l[c + 2] \in WordChars
    IN  /\ Len(lines) >= 2
        /\ lines[1] = <<"-", "-", "-">>
        /\ \A n \in 2..Len(lines) : plain(lines[n])

\* a text the YAML reader certainly rejects: it opens with a character that
\* can start no token, or a '---' document marker follows earlier content
\* (safe_load accepts a single document only)
IsNotYaml(s) ==
    LET lines == SplitLines(s)
        marker(l) == HasAt(l, 1, <<"-", "-", "-">>) /\ (Len(l) = 3 \/ At(l, 4) \in WS)
        filled(l) == Strip(l) # <<>> /\ At(l, 1) # "#"
    IN  \/ At(Strip(s), 1) \in {BQ, "@"}
        \/ \E n \in 2..Len(lines) : marker(lines[n]) /\ \E k \in 1..(n - 1) : filled(lines[k])

\* the outcomes yaml.safe_load(content) can have (TRUE: it returns, FALSE: it
\* raises); the library is outside the repository, so a text the two rules
\* above do not settle may go either way; FALSE when the call is not made
YamlVerdicts(s) ==
    IF ~HasYamlMarker(s) THEN {FALSE}
    ELSE IF LooksLikeJson(s) /\ JsonLoads(s).t # "raise" THEN {FALSE}
    ELSE IF IsFrontMatter(s) THEN {TRUE}
    ELSE IF IsNotYaml(s) THEN {FALSE}
    ELSE BOOLEAN

\* the classifier with the heading rule tried before the fence rule
DetectHeadingFirst(s, yok) ==
    IF LooksLikeJson(s) /\ JsonLoads(s).t # "raise" THEN K_json
    ELSE IF HasYamlMarker(s) /\ yok THEN K_yaml
    ELSE IF HasHeading(s) THEN K_markdown
    ELSE IF HasTaggedFence(s) THEN K_mixed
    ELSE K_text

\* _detect_response_type(content); yok is the outcome of yaml.safe_load
DetectResponseType(s, yok) ==
    IF LooksLikeJson(s) /\ JsonLoads(s).t # "raise" THEN K_json
    ELSE IF HasYamlMarker(s) /\ yok THEN K_yaml
    ELSE IF HasTaggedFence(s) THEN K_mixed
    ELSE IF HasHeading(s) THEN K_markdown
    ELSE K_text

-----------------------------------------------------------------------------
(* Commit-message extractor *)

\* the capture that opens at position from and runs to the end of its line,
\* and the position after the newline that ends it; no match when from is 0
ToLineEnd(s, from) ==
    IF from = 0 THEN NoMatch
    ELSE [ok |-> TRUE, g |-> Sub(s, from, LineEnd(s, from) - 1),
          e |-> IF LineEnd(s, from) <= Len(s) THEN LineEnd(s, from) + 1 ELSE LineEnd(s, from)]

\* where the capture opens when the whitespace run from a ends before n: at
\* n, or, when only whitespace follows a, on the last blank that is no
\* newline, which the run gives back; 0 when there is none
CaptureStart(s, a, n) ==
    IF n <= Len(s) THEN n
    ELSE IF {g \in a..(n - 1) : s[g] # NL} # {} THEN Max({g \in a..(n - 1) : s[g] # NL})
    ELSE 0

\* the tail  \s*(.+?)(?:\n|$)  of a pattern, tried at position a: the
\* whitespace is skipped (newlines included) and the capture runs to the end
\* of its line
RestOfLine(s, a) == ToLineEnd(s, CaptureStart(s, a, SkipWS(s, a)))

\* r'Commit(?: Message)?:\s*(.+?)(?:\n|$)'
MatchCommitLine(s, i) ==
    IF ~HasAtCI(s, i, <<"c", "o", "m", "m", "i", "t">>) THEN NoMatch
    ELSE IF HasAtCI(s, i + 6, <<" ", "m", "e", "s", "s", "a", "g", "e", ":">>)
        THEN RestOfLine(s, i + 15)
    ELSE IF At(s, i + 6) = ":" THEN RestOfLine(s, i + 7)
    ELSE NoMatch

\* the places after position c where  \s*$  may end
Trailing(s, c) == {p \in (c + 1)..SkipWS(s, c + 1) : AtLineEnd(s, p)}

\* the backticks of the line opening at i after which only whitespace
\* precedes a line end
BacktickCloses(s, i) ==
    {c \in (i + 2)..(LineEnd(s, i) - 1) : s[c] = BQ /\ Trailing(s, c) # {}}

\* the line opening at i, quoted up to the first of closes
BacktickQuoted(s, i, closes) ==
    IF ~(AtLineStart(s, i) /\ At(s, i) = BQ) \/ closes = {} THEN NoMatch
    ELSE [ok |-> TRUE, g |-> Sub(s, i + 1, Min(closes) - 1),
          e |-> Max(Trailing(s, Min(closes)))]

\* r'^`(.+?)`\s*$'
MatchBacktickLine(s, i) == BacktickQuoted(s, i, BacktickCloses(s, i))

\* r'feat(?:ure)?:\s*(.+?)(?:\n|$)'
MatchFeatLine(s, i) ==
    IF ~HasAtCI(s, i, <<"f", "e", "a", "t">>) THEN NoMatch
    ELSE IF HasAtCI(s, i + 4, <<"u", "r", "e", ":">>) THEN RestOfLine(s, i + 8)
    ELSE IF At(s, i + 4) = ":" THEN RestOfLine(s, i + 5)
    ELSE NoMatch

\* first position at or after i that holds no digit
SkipDigits(s, i) == Min({j \in i..(Len(s) + 1) : At(s, j) \notin Digits})

\* the position after a list marker (?:-|\*|\d+\.) standing at i, 0 when none
AfterListMarker(s, i) ==
    IF At(s, i) \in {"-", "*"} THEN i + 1
    ELSE IF At(s, i) \in Digits /\ At(s, SkipDigits(s, i)) = "." THEN SkipDigits(s, i) + 1
    ELSE 0

\* r'^(?:-|\*|\d+\.)\s*(.+?)(?:\n|$)'
MatchListItem(s, i) ==
    IF AtLineStart(s, i) /\ AfterListMarker(s, i) # 0
    THEN RestOfLine(s, AfterListMarker(s, i))
    ELSE NoMatch

\* [m.strip() for m in matches if len(m.strip()) > 10]
RECURSIVE KeepLong(_)
KeepLong(ms) ==
    IF ms = <<>> THEN <<>>
    ELSE IF Len(Strip(ms[1].g)) > 10 THEN <<Strip(ms[1].g)>> \o KeepLong(Tail(ms))
    ELSE KeepLong(Tail(ms))

\* the messages of the four families, concatenated in pattern order
CommitCandidates(s) ==
    KeepLong(FindAll(s, MatchCommitLine)) \o KeepLong(FindAll(s, MatchBacktickLine))
    \o KeepLong(FindAll(s, MatchFeatLine)) \o KeepLong(FindAll(s, MatchListItem))

\* the messages with their repeats left in
KeepRepeats(ms, seen) == ms

\* list(dict.fromkeys(messages)): every repeat removed, first occurrences kept
RECURSIVE Dedupe(_, _)
Dedupe(ms, seen) ==
    IF ms = <<>> THEN <<>>
    ELSE IF ms[1] \in seen THEN Dedupe(Tail(ms), seen)
    ELSE <<ms[1]>> \o Dedupe(Tail(ms), seen \cup {ms[1]})

MaxCommits == 5

\* messages[:5]
Top(ms) == Sub(ms, 1, Min({MaxCommits, Len(ms)}))

\* _extract_commit_messages(content), as a sequence of strings
ExtractCommitMessages(s) == Top(Dedupe(CommitCandidates(s), {}))

-----------------------------------------------------------------------------
(* Fenced blocks *)

NLFENCE == <<NL, BQ, BQ, BQ>>

\* where the body of a fenced block may open when the tail  \s*\n(.*?)\n```
\* of a fence pattern (re.DOTALL) is tried at position a, the position after
\* the opening fence and its tag: after a newline of the whitespace run that
\* still leaves a closing fence behind it
FenceOpenings(s, a) ==
    {b \in (a + 1)..SkipWS(s, a) : s[b - 1] = NL /\ Find(s, NLFENCE, b) # 0}

\* the text from position b up to position c, and the position e that
\* follows the four characters  \n```  at c
UpToFence(s, b, c) == [ok |-> TRUE, g |-> Sub(s, b, c - 1), e |-> c + 4]

\* the body opens at the last of the openings and ends before the first
\* \n```  that follows
FenceBodyFrom(s, opens) ==
    IF opens = {} THEN NoMatch
    ELSE UpToFence(s, Max(opens), Find(s, NLFENCE, Max(opens)))

FenceBody(s, a) == FenceBodyFrom(s, FenceOpenings(s, a))

-----------------------------------------------------------------------------
(* Patch extractor *)

\* the match of a fence pattern at position i, body being the match of its
\* tail: the whole block, fence lines included (group 0)
Fenced(s, i, body) ==
    IF HasAt(s, i, FENCE) /\ body.ok
    THEN [ok |-> TRUE, g |-> Sub(s, i, body.e - 1), e |-> body.e]
    ELSE NoMatch

\* r'```(?:patch|diff)\s*\n(.*?)\n```'
MatchPatchFence(s, i) ==
    Fenced(s, i, IF HasAt(s, i + 3, <<"p", "a", "t", "c", "h">>) THEN FenceBody(s, i + 8)
                 ELSE IF HasAt(s, i + 3, <<"d", "i", "f", "f">>) THEN FenceBody(s, i + 7)
                 ELSE NoMatch)

\* the lookahead (?=\n---|\n```|\Z) at position p
DiffStops(s, p) ==
    \/ p = Len(s) + 1
    \/ HasAt(s, p, <<NL, "-", "-", "-">>)
    \/ HasAt(s, p, NLFENCE)

\* the match that runs from position i up to position stop
UpTo(s, i, stop) == [ok |-> TRUE, g |-> Sub(s, i, stop - 1), e |-> stop]

\* the first '\n@@' after the '\n+++ b/' at position plus, 0 when none
HunkLineAfter(s, plus) == IF plus = 0 THEN 0 ELSE Find(s, <<NL, "@", "@">>, plus + 8)

\* the raw diff whose header stands at i and whose first hunk line at hunk
RawDiffFrom(s, i, hunk) ==
    IF AtLineStart(s, i) /\ HasAt(s, i, <<"-", "-", "-", " ", "a", "/">>) /\ hunk # 0
    THEN UpTo(s, i, Min({p \in (hunk + 3)..(Len(s) + 1) : DiffStops(s, p)}))
    ELSE NoMatch

\* r'^--- a/(.+?)\n\+\+\+ b/(.+?)(?:\n@@.*?(?:\n.*?)*?)(?=\n---|\n```|\Z)'
\* under re.DOTALL: the header, the first '+++ b/' line after it, the first
\* '@@' line after that, and everything up to the first stop
MatchRawDiff(s, i) ==
    RawDiffFrom(s, i, HunkLineAfter(s, Find(s, <<NL, "+", "+", "+", " ", "b", "/">>, i + 7)))

\* the range whose sign stands at i and whose first number ends before a
RangeFrom(s, i, sign, a) ==
    IF At(s, i) = sign /\ a > i + 1 /\ At(s, a) = "," /\ SkipDigits(s, a + 1) > a + 1
    THEN SkipDigits(s, a + 1)
    ELSE 0

\* the position after  -\d+,\d+  or  \+\d+,\d+  standing at i, 0 when none
AfterRange(s, i, sign) == RangeFrom(s, i, sign, SkipDigits(s, i + 1))

\* the lookahead (?=\n@@|\n---|\n```|\Z) at position p
HunkStops(s, p) == DiffStops(s, p) \/ HasAt(s, p, <<NL, "@", "@">>)

\* the position after the second range of a marker whose first range ends
\* before a, 0 when none
SecondRange(s, a) == IF a # 0 /\ At(s, a) = " " THEN AfterRange(s, a + 1, "+") ELSE 0

\* the line starts from p0 on at which the hunk may end
HunkEnds(s, p0) == {p \in p0..(Len(s) + 1) : (p = p0 \/ s[p - 1] = NL) /\ HunkStops(s, p)}

HunkUpTo(s, i, stops) == IF stops = {} THEN NoMatch ELSE UpTo(s, i, Min(stops))

\* the hunk whose marker stands at i, its second range ending before b
HunkFrom(s, i, b) ==
    IF HasAt(s, i, <<"@", "@", " ">>) /\ b # 0 /\ HasAt(s, b, <<" ", "@", "@", NL>>)
    THEN HunkUpTo(s, i, HunkEnds(s, b + 4))
    ELSE NoMatch

\* r'@@ -\d+,\d+ \+\d+,\d+ @@\n(?:.*?\n)*?(?=\n@@|\n---|\n```|\Z)'
\* under re.DOTALL: the marker line and then whole lines up to the first stop
MatchHunk(s, i) == HunkFrom(s, i, SecondRange(s, AfterRange(s, i + 3, "-")))

\* a header pair stands at j, e being the end of its '--- a/' line: both
\* paths are non-empty and the '+++ b/' line ends in a newline
IsHeaderPair(p, j, e) ==
    /\ HasAt(p, j, <<"-", "-", "-", " ", "a", "/">>)
    /\ e > j + 6
    /\ HasAt(p, e, <<NL, "+", "+", "+", " ", "b", "/">>)
    /\ LineEnd(p, e + 7) > e + 7
    /\ LineEnd(p, e + 7) <= Len(p)

FirstHeaderPath(p, heads) ==
    IF heads = {} THEN K_unknown
    ELSE Sub(p, Min(heads) + 6, LineEnd(p, Min(heads) + 6) - 1)

\* re.search(r'--- a/(.+?)\n\+\+\+ b/(.+?)\n', patch_content), no flags: the
\* a-side path of the first header pair whose '+++ b/' line is not empty and
\* ends in a newline; 'unknown' when there is none
PatchFile(p) ==
    FirstHeaderPath(p, {j \in 1..Len(p) : IsHeaderPair(p, j, LineEnd(p, j + 6))})

\* the PatchRecord of one match of a diff pattern
DiffRecord(m) ==
    PyDict((K_content :> PyStr(m.g)) @@ (K_file :> PyStr(PatchFile(m.g)))
           @@ (K_format :> PyStr(K_unified_diff)))

Quotes == {DQ, SQ}

\* where a capture that follows  \s*["\']?  tried at position a may open,
\* the preferred opening being the largest: after the whole whitespace run
\* and a quote, after the whitespace run, or on a blank given back by it
Openings(s, a) ==
    {n \in a..(SkipWS(s, a) + 1) :
        /\ n <= Len(s)
        /\ s[n] # NL
        /\ n = SkipWS(s, a) + 1 => At(s, SkipWS(s, a)) \in Quotes}

\* whitespace, a line end or one of the characters dots stands at position
\* p: (?:\s|$) with dots empty, (?:\s|$|\.) with dots = {"."}
Closing(s, p, dots) == At(s, p) \in WS \cup dots \/ p = Len(s) + 1

\* a quote followed by a closing stands after position y
ClosedAfter(s, y, dots) == At(s, y + 1) \in Quotes /\ Closing(s, y + 2, dots)

\* where the capture (.+?) that opens at n ends: at the first character that
\* is followed, after an optional quote, by a closing
CaptureEnd(s, n, dots) ==
    Min({z \in n..(LineEnd(s, n) - 1) : ClosedAfter(s, z, dots) \/ Closing(s, z + 1, dots)})

\* the position after the capture, which ends at y, and its optional quote
AfterCapture(s, y, dots) == IF ClosedAfter(s, y, dots) THEN y + 2 ELSE y + 1

\* the capture from n to y, and the position after the closing
Capture(s, n, y, dots) ==
    [ok |-> TRUE, g |-> Sub(s, n, y),
     e |-> IF AfterCapture(s, y, dots) <= Len(s) THEN AfterCapture(s, y, dots) + 1
           ELSE AfterCapture(s, y, dots)]

\* the tail  (.+?)["\']?(?:\s|$)  or  (.+?)["\']?(?:\s|$|\.)  of a pattern,
\* the capture opening at the last of opens
CaptureFrom(s, opens, dots) ==
    IF opens = {} THEN NoMatch
    ELSE Capture(s, Max(opens), CaptureEnd(s, Max(opens), dots), dots)

\* the tail  \s*["\']?(.+?)["\']?(?:\s|$)  of the replace pattern, tried at
\* position a, the position after the arrow: <new> ends at the first
\* character that is followed, after an optional quote, by whitespace or by
\* the end of the text
ReplaceNew(s, a) == CaptureFrom(s, Openings(s, a), {})

ArrowFrom(s, q) == IF At(s, q) = ARROW THEN q ELSE 0

\* the position of the arrow that  ["\']?\s*→  reaches from position p, 0 when none
ArrowAfter(s, p) == ArrowFrom(s, SkipWS(s, IF At(s, p) \in Quotes THEN p + 1 ELSE p))

\* where <old>, opening at o, may end: at a character from which the arrow is
\* reached over an optional quote and whitespace, a <new> following the arrow
OldEnds(s, o) ==
    {x \in o..(LineEnd(s, o) - 1) :
        ArrowAfter(s, x + 1) # 0 /\ ReplaceNew(s, ArrowAfter(s, x + 1) + 1).ok}

\* the match with <old> from o to x and the match new of the tail
Replaced(s, o, x, new) == [ok |-> TRUE, old |-> Sub(s, o, x), new |-> new.g, e |-> new.e]

\* <old> opens at o and ends at x, the first of its possible ends
ReplaceOld(s, o, x) == Replaced(s, o, x, ReplaceNew(s, ArrowAfter(s, x + 1) + 1))

\* <old> opens at the last of the openings
ReplaceFrom(s, opens) ==
    IF opens = {} THEN NoMatch
    ELSE ReplaceOld(s, Max(opens), Min(OldEnds(s, Max(opens))))

\* r'Replace:\s*["\']?(.+?)["\']?\s*→\s*["\']?(.+?)["\']?(?:\s|$)' under
\* re.MULTILINE
MatchReplace(s, i) ==
    IF HasAt(s, i, <<"R", "e", "p", "l", "a", "c", "e", ":">>)
    THEN ReplaceFrom(s, {o \in Openings(s, i + 8) : OldEnds(s, o) # {}})
    ELSE NoMatch

\* the PatchRecord of one match of the replace pattern
ReplaceRecord(m) ==
    PyDict((K_content :> PyStr(<<"-">> \o m.old \o <<NL, "+">> \o m.new))
           @@ (K_file :> PyStr(K_unknown))
           @@ (K_format :> PyStr(K_simple_replace)))

\* f applied to every element of a sequence
MapSeq(xs, f(_)) == [k \in 1..Len(xs) |-> f(xs[k])]

\* _extract_patches(content), as a sequence of PatchRecords
ExtractPatches(s) ==
    MapSeq(FindAll(s, MatchPatchFence), DiffRecord)
    \o MapSeq(FindAll(s, MatchRawDiff), DiffRecord)
    \o MapSeq(FindAll(s, MatchHunk), DiffRecord)
    \o MapSeq(FindAll(s, MatchReplace), ReplaceRecord)

-----------------------------------------------------------------------------
(* Text-heuristic change extractor *)

\* r'File:\s*(.+?)(?:\n|$)'
MatchFileColon(s, i) ==
    IF HasAtCI(s, i, <<"f", "i", "l", "e", ":">>) THEN RestOfLine(s, i + 5) ELSE NoMatch

\* where the capture of the label pattern may open: from position p, the
\* position after the word, to the end of the whitespace, one optional '#' or
\* ':' and whitespace again, r1 being the end of the first whitespace run
LabelOpenings(s, p, r1) ==
    {n \in p..(IF At(s, r1) \in {"#", ":"} THEN SkipWS(s, r1 + 1) ELSE r1) :
        n <= Len(s) /\ s[n] # NL}

LabelFrom(s, i, opens) ==
    IF HasAtCI(s, i, <<"f", "i", "l", "e">>) /\ opens # {} THEN ToLineEnd(s, Max(opens))
    ELSE NoMatch

\* r'File\s*[#:]?\s*(.+?)(?:\n|$)': the capture opens as late as whitespace,
\* one optional '#' or ':' and whitespace again allow, and runs to the end of
\* its line
MatchFileLabel(s, i) == LabelFrom(s, i, LabelOpenings(s, i + 4, SkipWS(s, i + 4)))

\* the alternatives of (?:py|js|ts|java|cpp|c|h|go|rs|php|rb|sh|md|txt|json|yaml|yml)
Extensions ==
    << <<"p", "y">>, <<"j", "s">>, <<"t", "s">>, <<"j", "a", "v", "a">>, <<"c", "p", "p">>,
       <<"c">>, <<"h">>, <<"g", "o">>, <<"r", "s">>, <<"p", "h", "p">>, <<"r", "b">>,
       <<"s", "h">>, <<"m", "d">>, <<"t", "x", "t">>, <<"j", "s", "o", "n">>,
       <<"y", "a", "m", "l">>, <<"y", "m", "l">> >>

\* the length of the first of the alternatives alts among those numbered in
\* fits, 0 when there is none
FirstLength(alts, fits) == IF fits = {} THEN 0 ELSE Len(alts[Min(fits)])

\* the length of the first alternative of Extensions that stands at position p, 0 when none
ExtensionAt(s, p) ==
    FirstLength(Extensions, {k \in 1..Len(Extensions) : HasAtCI(s, p, Extensions[k])})

\* the dots of the line after position n that an extension follows
Dots(s, n) ==
    {d \in (n + 1)..(LineEnd(s, n) - 1) : s[d] = "." /\ ExtensionAt(s, d + 1) # 0}

\* where the capture of a list item may open, a being the position after the
\* list marker
ListFileOpenings(s, a) ==
    {n \in a..SkipWS(s, a) : n <= Len(s) /\ s[n] # NL /\ Dots(s, n) # {}}

\* the capture from n to the extension that follows the dot d
UpToExtension(s, n, d) ==
    [ok |-> TRUE, g |-> Sub(s, n, d + ExtensionAt(s, d + 1)),
     e |-> d + ExtensionAt(s, d + 1) + 1]

ListFileFrom(s, opens) ==
    IF opens = {} THEN NoMatch
    ELSE UpToExtension(s, Max(opens), Min(Dots(s, Max(opens))))

\* r'^(?:-|\*|\d+\.)\s*(.+?\.(?:py|js|...|yml))': a list item, captured up to
\* the first '.' of its line that an extension follows, that extension included
MatchListFile(s, i) ==
    IF AtLineStart(s, i) /\ AfterListMarker(s, i) # 0
    THEN ListFileFrom(s, ListFileOpenings(s, AfterListMarker(s, i)))
    ELSE NoMatch

\* the alternatives of (?:modif|chang|updat|add|remov|delet)
VerbStems ==
    << <<"m", "o", "d", "i", "f">>, <<"c", "h", "a", "n", "g">>, <<"u", "p", "d", "a", "t">>,
       <<"a", "d", "d">>, <<"r", "e", "m", "o", "v">>, <<"d", "e", "l", "e", "t">> >>

\* the length of the verb stem that stands at position i, 0 when none
StemAt(s, i) ==
    FirstLength(VerbStems, {k \in 1..Len(VerbStems) : HasAtCI(s, i, VerbStems[k])})

\* the tail  \s+["\']?(.+?)["\']?(?:\s|$|\.)  tried at position g, the
\* position after the word 'file'
FileToken(s, g) ==
    IF At(s, g) \notin WS THEN NoMatch
    ELSE CaptureFrom(s, {n \in Openings(s, g) : n > g}, {"."})

\* from position k the lazy  .*?  reaches position t without leaving the
\* line, and whitespace fills the text from t up to the word at f
Reaches(s, k, t, f) ==
    /\ \A j \in t..(f - 1) : s[j] \in WS
    /\ \A j \in k..(t - 1) : s[j] # NL

\* the first place where the whitespace before the word at f may begin
Begin(s, k, f) == Min({t \in k..(f - 1) : Reaches(s, k, t, f)})

\* the words 'file' the pattern can use from position k, the position after
\* the verb stem
FileWords(s, k) ==
    {f \in (k + 1)..Len(s) :
        /\ HasAtCI(s, f, <<"f", "i", "l", "e">>)
        /\ s[f - 1] \in WS
        /\ \E t \in k..(f - 1) : Reaches(s, k, t, f)
        /\ FileToken(s, f + 4).ok}

\* the lazy  .*?  stops as early as it can: the choice among the words
\* 'file' is made by the place where the whitespace before them may begin
VerbFileAmong(s, k, files) ==
    IF files = {} THEN NoMatch
    ELSE FileToken(s, (CHOOSE x \in files : \A z \in files : Begin(s, k, x) <= Begin(s, k, z)) + 4)

\* r'\b(?:modif|chang|updat|add|remov|delet).*?\s+file\s+["\']?(.+?)["\']?(?:\s|$|\.)':
\* a verb stem at a word start, then the first word 'file' that whitespace
\* precedes, reached without leaving the line before that whitespace
MatchVerbFile(s, i) ==
    IF StemAt(s, i) # 0 /\ (i = 1 \/ At(s, i - 1) \notin WordChars)
    THEN VerbFileAmong(s, i + StemAt(s, i), FileWords(s, i + StemAt(s, i)))
    ELSE NoMatch

ChangeDetectedIn ==
    <<"C", "h", "a", "n", "g", "e", " ", "d", "e", "t", "e", "c", "t", "e", "d", " ", "i", "n", " ">>

\* the ChangeRequest built of one capture
ChangeRecord(path) ==
    PyDict((K_file_path :> PyStr(path)) @@ (K_change_type :> PyStr(K_modify))
           @@ (K_description :> PyStr(ChangeDetectedIn \o path))
           @@ (K_source :> PyStr(K_text_extraction)))

\* the changes of one family with a path the family found before left out
RECURSIVE KeepNewPaths(_)
KeepNewPaths(ms) ==
    IF ms = <<>> THEN <<>>
    ELSE IF Strip(ms[Len(ms)].g) # <<>> /\ Contains(ms[Len(ms)].g, <<".">>)
            /\ \A k \in 1..(Len(ms) - 1) : Strip(ms[k].g) # Strip(ms[Len(ms)].g)
        THEN KeepNewPaths(SubSeq(ms, 1, Len(ms) - 1)) \o <<ChangeRecord(Strip(ms[Len(ms)].g))>>
    ELSE KeepNewPaths(SubSeq(ms, 1, Len(ms) - 1))

\* the changes of one family: a capture is kept if match.strip() and '.' in match
RECURSIVE KeepPaths(_)
KeepPaths(ms) ==
    IF ms = <<>> THEN <<>>
    ELSE IF Strip(ms[1].g) # <<>> /\ Contains(ms[1].g, <<".">>)
        THEN <<ChangeRecord(Strip(ms[1].g))>> \o KeepPaths(Tail(ms))
    ELSE KeepPaths(Tail(ms))

\* _extract_changes_from_text(text), as a sequence of ChangeRequests
ExtractChangesFromText(s) ==
    KeepPaths(FindAll(s, MatchFileColon)) \o KeepPaths(FindAll(s, MatchFileLabel))
    \o KeepPaths(FindAll(s, MatchListFile)) \o KeepPaths(FindAll(s, MatchVerbFile))

-----------------------------------------------------------------------------
(* Shape parsers *)

\* r'```json\s*\n(.*?)\n```'
MatchJsonFence(s, i) ==
    IF HasAt(s, i, FENCE \o <<"j", "s", "o", "n">>) THEN FenceBody(s, i + 7) ELSE NoMatch

\* the position of what follows the whitespace after position x
Separator(l, x) == SkipWS(l, x + 1)

\* where the key that opens at o may end: at a character from which a ':' or
\* '=' that has text behind it is reached over whitespace
KeyEnds(l, o) ==
    {x \in o..Len(l) : At(l, Separator(l, x)) \in {":", "="} /\ Separator(l, x) < Len(l)}

\* the key from o to x and the value behind the separator
KeyValue(l, o, x) ==
    [ok |-> TRUE, key |-> Sub(l, o, x), value |-> Sub(l, Separator(l, x) + 1, Len(l))]

\* the key opens at the last of opens and ends at the first of its ends
KeyValueFrom(l, opens) ==
    IF opens = {} THEN NoMatch
    ELSE KeyValue(l, Max(opens), Min(KeyEnds(l, Max(opens))))

\* the value and the key of one line under r'^\s*(.+?)\s*[:=]\s*(.+?)\s*$':
\* the key opens at the first character that is no blank (or on a blank given
\* back)
MatchKeyValue(l) ==
    KeyValueFrom(l, {o \in 1..SkipWS(l, 1) : o <= Len(l) /\ KeyEnds(l, o) # {}})

\* str.replace(' ', '_')
Underscored(s) == [i \in 1..Len(s) |-> IF s[i] = " " THEN "_" ELSE s[i]]

\* data when the call that gave it did not raise, other when it did
OrElse(data, other) == IF data.t # "raise" THEN data ELSE other

\* the value of a key:value line: parsed as JSON when it opens with '[' or
\* '{' and parses, the stripped text otherwise
LineValue(v) ==
    IF At(v, 1) \in {"[", "{"} THEN OrElse(JsonLoads(v), PyStr(v)) ELSE PyStr(v)

\* the body of the loop over the lines, m being the match of the line
StoreLine(data, m) ==
    IF m.ok
    THEN SetItem(data, Underscored(Lower(Strip(m.key))), LineValue(Strip(m.value)))
    ELSE data

\* the loop over the lines
RECURSIVE StoreLines(_, _)
StoreLines(data, lines) ==
    IF lines = <<>> THEN data
    ELSE StoreLines(StoreLine(data, MatchKeyValue(Head(lines))), Tail(lines))

\* _extract_structured_data(content)
ExtractStructuredData(s) == PyDict(StoreLines(<<>>, SplitLines(s)))

\* json.loads(match.group(1)) for the first fenced json block, fences being
\* the places where one opens; raises when there is none (the model's way to
\* say that the branch is not taken)
FirstFenced(s, fences) ==
    IF fences = {} THEN Raise("NoMatch")
    ELSE JsonLoads(MatchJsonFence(s, Min(fences)).g)

\* _parse_json_response(content)
ParseJsonResponse(s) ==
    OrElse(JsonLoads(s),
           OrElse(FirstFenced(s, {i \in 1..Len(s) : MatchJsonFence(s, i).ok}),
                  ExtractStructuredData(s)))

\* r'\n#+\s+', the separator of re.split
MatchHeadingBreak(s, i) ==
    IF At(s, i) = NL /\ At(s, i + 1) = "#" /\ At(s, SkipHashes(s, i + 1)) \in WS
    THEN [ok |-> TRUE, b |-> i, e |-> SkipWS(s, SkipHashes(s, i + 1))]
    ELSE NoMatch

\* the pieces of s that the separators cuts leave
Between(s, cuts) ==
    [k \in 1..(Len(cuts) + 1) |->
        Sub(s, IF k = 1 THEN 1 ELSE cuts[k - 1].e,
               IF k > Len(cuts) THEN Len(s) ELSE cuts[k].b - 1)]

\* re.split(r'\n#+\s+', content)
SplitSections(s) == Between(s, FindAll(s, MatchHeadingBreak))

\* lines[0].strip() of a section
SectionTitle(sec) == Strip(Sub(sec, 1, LineEnd(sec, 1) - 1))

\* '\n'.join(lines[1:]).strip() of a section
SectionBody(sec) == Strip(Sub(sec, LineEnd(sec, 1) + 1, Len(sec)))

\* 'word' in title_lower
Has(title, word) == Contains(Lower(title), word)

\* the body of the loop over the sections, for a section with the given
\* title and body
FileUnder(r, title, body) ==
    IF Has(title, <<"c", "h", "a", "n", "g", "e">>)
       \/ Has(title, <<"m", "o", "d", "i", "f", "i", "c", "a", "t", "i", "o", "n">>)
        THEN SetItem(r, K_changes, PyList(ExtractChangesFromText(body)))
    ELSE IF Has(title, <<"s", "u", "m", "m", "a", "r", "y">>)
            \/ Has(title, <<"o", "v", "e", "r", "v", "i", "e", "w">>)
        THEN SetItem(r, K_summary, PyStr(body))
    ELSE IF Has(title, <<"i", "m", "p", "l", "e", "m", "e", "n", "t", "a", "t", "i", "o", "n">>)
            \/ Has(title, <<"p", "l", "a", "n">>)
        THEN SetItem(r, K_implementation_plan, PyStr(body))
    ELSE SetItem(r, K_details, PyDict(SetItem(r[K_details].v, title, PyStr(body))))

\* the loop over the sections; a section without text or without title is skipped
RECURSIVE FoldSections(_, _)
FoldSections(r, secs) ==
    IF secs = <<>> THEN r
    ELSE IF Strip(Head(secs)) = <<>> \/ SectionTitle(Head(secs)) = <<>>
        THEN FoldSections(r, Tail(secs))
    ELSE FoldSections(FileUnder(r, SectionTitle(Head(secs)), SectionBody(Head(secs))),
                      Tail(secs))

\* _parse_markdown_response(content)
ParseMarkdownResponse(s) ==
    PyDict(FoldSections((K_changes :> PyList(<<>>)) @@ (K_summary :> PyStr(<<>>))
                        @@ (K_details :> EmptyDict),
                        SplitSections(s)))

SummaryLimit == 500

\* the text parser without its summary entry
ParseTextWithoutSummary(s) ==
    PyDict((K_raw_content :> PyStr(s)) @@ (K_changes :> PyList(ExtractChangesFromText(s))))

\* _parse_text_response(content)
ParseTextResponse(s) ==
    PyDict((K_raw_content :> PyStr(s))
           @@ (K_changes :> PyList(ExtractChangesFromText(s)))
           @@ (K_summary :> PyStr(IF Len(s) > SummaryLimit
                                  THEN Sub(s, 1, SummaryLimit) \o <<".", ".", ".">>
                                  ELSE s)))

\* first position at or after i that holds no word character
SkipWord(s, i) == Min({j \in i..(Len(s) + 1) : At(s, j) \notin WordChars})

\* r'```(?!json)(\w+)?\s*\n(.*?)\n```'
MatchCodeFence(s, i) ==
    LET body == FenceBody(s, SkipWord(s, i + 3))
    IN  IF HasAt(s, i, FENCE) /\ ~HasAt(s, i + 3, <<"j", "s", "o", "n">>) /\ body.ok
        THEN [ok |-> TRUE, lang |-> Sub(s, i + 3, SkipWord(s, i + 3) - 1), g |-> body.g,
              e |-> body.e]
        ELSE NoMatch

\* the elements of a set in a sequence
RECURSIVE SeqOfSet(_)
SeqOfSet(S) ==
    IF S = {} THEN <<>>
    ELSE LET x == CHOOSE y \in S : TRUE IN <<x>> \o SeqOfSet(S \ {x})

\* what list.extend(x) appends: the items of a list, the characters of a str,
\* the keys of a dict (the model does not keep the insertion order of a dict
\* and appends its keys in a fixed order); other values raise TypeError
Extension(x) ==
    IF x.t = "list" THEN PyList(x.v)
    ELSE IF x.t = "str" THEN PyList([k \in 1..Len(x.v) |-> PyStr(<<x.v[k]>>)])
    ELSE IF x.t = "dict" THEN PyList(MapSeq(SeqOfSet(DOMAIN x.v), PyStr))
    ELSE Raise("TypeError")

\* what result['changes'].extend(...) of the loop body is given: the list
\* itself, or the value under 'changes' of a dict that has the key
Extended(data) ==
    IF data.t = "list" THEN Extension(data)
    ELSE IF data.t = "dict" /\ K_changes \in DOMAIN data.v THEN Extension(data.v[K_changes])
    ELSE Raise("TypeError")

\* the loop body with result.update(data) keeping the value a key has already
MergeKeepingFirst(r, data) ==
    IF data.t = "raise" THEN r
    ELSE IF data.t = "list" \/ (data.t = "dict" /\ K_changes \in DOMAIN data.v)
        THEN (IF Extended(data).t = "raise" THEN r
              ELSE SetItem(r, K_changes, PyList(r[K_changes].v \o Extended(data).v)))
    ELSE IF data.t = "dict" THEN Update(data.v, r)
    ELSE r

\* the body of the loop over the fenced json blocks, data being what
\* json.loads made of the block: the result after the block; whatever raises
\* inside the try leaves the result as it was
MergeParsed(r, data) ==
    IF data.t = "raise" THEN r
    ELSE IF data.t = "list" \/ (data.t = "dict" /\ K_changes \in DOMAIN data.v)
        THEN (IF Extended(data).t = "raise" THEN r
              ELSE SetItem(r, K_changes, PyList(r[K_changes].v \o Extended(data).v)))
    ELSE IF data.t = "dict" THEN Update(r, data.v)
    ELSE r

MergeJsonBlock(r, block) == MergeParsed(r, JsonLoads(block))

\* the loop over the fenced json blocks
RECURSIVE MergeJsonBlocks(_, _)
MergeJsonBlocks(r, jsons) ==
    IF jsons = <<>> THEN r
    ELSE MergeJsonBlocks(MergeJsonBlock(r, Head(jsons).g), Tail(jsons))

\* the entry of code_blocks made of one match
CodeBlock(m) ==
    PyDict((K_language :> PyStr(IF m.lang = <<>> THEN K_text ELSE m.lang))
           @@ (K_content :> PyStr(m.g)))

\* the loop over the other fenced blocks: result['code_blocks'].append(...)
\* raises AttributeError when a json block has put a non-list under the key
AppendCodeBlocks(r, codes) ==
    IF codes = <<>> THEN PyDict(r)
    ELSE IF r[K_code_blocks].t # "list" THEN Raise("AttributeError")
    ELSE PyDict(SetItem(r, K_code_blocks,
                        PyList(r[K_code_blocks].v \o MapSeq(codes, CodeBlock))))

\* the section has text, a title and a body
Titled(sec) == Strip(sec) # <<>> /\ SectionTitle(sec) # <<>> /\ SectionBody(sec) # <<>>

\* the body of the loop over the sections: result['sections'][title] = body
\* raises TypeError when a json block has put a non-dict under the key
FileSection(r, sec) ==
    IF r.t = "raise" \/ ~Titled(sec) THEN r
    ELSE IF r.v[K_sections].t # "dict" THEN Raise("TypeError")
    ELSE PyDict(SetItem(r.v, K_sections,
                        PyDict(SetItem(r.v[K_sections].v, SectionTitle(sec),
                                       PyStr(SectionBody(sec))))))

\* the loop over the sections
RECURSIVE FileSections(_, _)
FileSections(r, secs) ==
    IF secs = <<>> THEN r
    ELSE FileSections(FileSection(r, Head(secs)), Tail(secs))

\* _parse_mixed_response(content)
ParseMixedResponse(s) ==
    FileSections(
        AppendCodeBlocks(
            MergeJsonBlocks((K_changes :> PyList(<<>>)) @@ (K_code_blocks :> PyList(<<>>))
                            @@ (K_sections :> EmptyDict),
                            FindAll(s, MatchJsonFence)),
            FindAll(s, MatchCodeFence)),
        SplitSections(s))
-----------------------------------------------------------------------------
(* Response files.  A response is a sequence of fragments joined by        *)
(* newlines.  Besides its text a fragment records what it is: the tag and   *)
(* the body of a fenced block and the a-side path of its header pair, the   *)
(* <old> and the <new> of a Replace line, the message of a line that holds  *)
(* one commit message (as body).  The program reads the text only.          *)

\* {"changes": [{"file_path": "a.py"}], "patches": "none", "commits": 7}
B_json_object ==
    [kind |-> "json_object",
     text |-> <<"{", DQ, "c", "h", "a", "n", "g", "e", "s", DQ, ":", " ", "[", "{", DQ, "f", "i", "l",
           "e", "_", "p", "a", "t", "h", DQ, ":", " ", DQ, "a", ".", "p", "y", DQ, "}", "]", ",",
           " ", DQ, "p", "a", "t", "c", "h", "e", "s", DQ, ":", " ", DQ, "n", "o", "n", "e", DQ,
           ",", " ", DQ, "c", "o", "m", "m", "i", "t", "s", DQ, ":", " ", "7", "}">>,
     tag |-> <<>>, body |-> <<>>,
     path |-> <<>>, old |-> <<>>, new |-> <<>>]

\* [{"file_path": "a.py"}]
B_json_array ==
    [kind |-> "json_array",
     text |-> <<"[", "{", DQ, "f", "i", "l", "e", "_", "p", "a", "t", "h", DQ, ":", " ", DQ, "a", ".",
           "p", "y", DQ, "}", "]">>,
     tag |-> <<>>, body |-> <<>>,
     path |-> <<>>, old |-> <<>>, new |-> <<>>]

\* {not json
B_broken_json ==
    [kind |-> "prose",
     text |-> <<"{", "n", "o", "t", " ", "j", "s", "o", "n">>,
     tag |-> <<>>, body |-> <<>>,
     path |-> <<>>, old |-> <<>>, new |-> <<>>]

\* ---\ntitle: fix
B_front_matter ==
    [kind |-> "front_matter",
     text |-> <<"-", "-", "-", NL, "t", "i", "t", "l", "e", ":", " ", "f", "i", "x">>,
     tag |-> <<>>, body |-> <<>>,
     path |-> <<>>, old |-> <<>>, new |-> <<>>]

\* ## Summary\nFixes the parser
B_summary ==
    [kind |-> "heading",
     text |-> <<"#", "#", " ", "S", "u", "m", "m", "a", "r", "y", NL, "F", "i", "x", "e", "s", " ",
           "t", "h", "e", " ", "p", "a", "r", "s", "e", "r">>,
     tag |-> <<>>, body |-> <<>>,
     path |-> <<>>, old |-> <<>>, new |-> <<>>]

\* ```python\nprint(1)\n```
B_python_body ==
    <<"p", "r", "i", "n", "t", "(", "1", ")">>

B_python ==
    [kind |-> "fence",
     text |-> FENCE \o <<"p", "y", "t", "h", "o", "n">> \o <<NL>> \o B_python_body \o NLFENCE,
     tag |-> <<"p", "y", "t", "h", "o", "n">>, body |-> B_python_body,
     path |-> <<>>, old |-> <<>>, new |-> <<>>]

\* ```json\n{"code_blocks": "none"}\n```
B_json_code_blocks_body ==
    <<"{", DQ, "c", "o", "d", "e", "_", "b", "l", "o", "c", "k", "s", DQ, ":", " ", DQ, "n",
      "o", "n", "e", DQ, "}">>

B_json_code_blocks ==
    [kind |-> "fence",
     text |-> FENCE \o <<"j", "s", "o", "n">> \o <<NL>> \o B_json_code_blocks_body \o NLFENCE,
     tag |-> <<"j", "s", "o", "n">>, body |-> B_json_code_blocks_body,
     path |-> <<>>, old |-> <<>>, new |-> <<>>]

\* ```json\n{"sections": "none"}\n```
B_json_sections_body ==
    <<"{", DQ, "s", "e", "c", "t", "i", "o", "n", "s", DQ, ":", " ", DQ, "n", "o", "n", "e",
      DQ, "}">>

B_json_sections ==
    [kind |-> "fence",
     text |-> FENCE \o <<"j", "s", "o", "n">> \o <<NL>> \o B_json_sections_body \o NLFENCE,
     tag |-> <<"j", "s", "o", "n">>, body |-> B_json_sections_body,
     path |-> <<>>, old |-> <<>>, new |-> <<>>]

\* Please modify the file .env now
B_prose ==
    [kind |-> "prose",
     text |-> <<"P", "l", "e", "a", "s", "e", " ", "m", "o", "d", "i", "f", "y", " ", "t", "h", "e",
           " ", "f", "i", "l", "e", " ", ".", "e", "n", "v", " ", "n", "o", "w">>,
     tag |-> <<>>, body |-> <<>>,
     path |-> <<>>, old |-> <<>>, new |-> <<>>]

\* ```patch\n--- a/foo.py\n+++ b/foo.py\n@@ -1,2 +1,2 @@\n-old\n+new\n```
B_patch_body ==
    <<"-", "-", "-", " ", "a", "/", "f", "o", "o", ".", "p", "y", NL, "+", "+", "+", " ",
      "b", "/", "f", "o", "o", ".", "p", "y", NL, "@", "@", " ", "-", "1", ",", "2", " ",
      "+", "1", ",", "2", " ", "@", "@", NL, "-", "o", "l", "d", NL, "+", "n", "e", "w">>

B_patch ==
    [kind |-> "fence",
     text |-> FENCE \o <<"p", "a", "t", "c", "h">> \o <<NL>> \o B_patch_body \o NLFENCE,
     tag |-> <<"p", "a", "t", "c", "h">>, body |-> B_patch_body,
     path |-> <<"f", "o", "o", ".", "p", "y">>, old |-> <<>>, new |-> <<>>]

\* Commit: Fix the null pointer bug in parser
B_commit ==
    [kind |-> "commit",
     text |-> <<"C", "o", "m", "m", "i", "t", ":", " ", "F", "i", "x", " ", "t", "h", "e", " ", "n",
           "u", "l", "l", " ", "p", "o", "i", "n", "t", "e", "r", " ", "b", "u", "g", " ", "i",
           "n", " ", "p", "a", "r", "s", "e", "r">>,
     tag |-> <<>>, body |-> <<"F", "i", "x", " ", "t", "h", "e", " ", "n", "u", "l", "l", " ", "p", "o", "i", "n",
           "t", "e", "r", " ", "b", "u", "g", " ", "i", "n", " ", "p", "a", "r", "s", "e", "r">>,
     path |-> <<>>, old |-> <<>>, new |-> <<>>]

\* `Fix the null pointer bug in parser`
B_quoted ==
    [kind |-> "commit",
     text |-> <<BQ, "F", "i", "x", " ", "t", "h", "e", " ", "n", "u", "l", "l", " ", "p", "o", "i",
           "n", "t", "e", "r", " ", "b", "u", "g", " ", "i", "n", " ", "p", "a", "r", "s", "e",
           "r", BQ>>,
     tag |-> <<>>, body |-> <<"F", "i", "x", " ", "t", "h", "e", " ", "n", "u", "l", "l", " ", "p", "o", "i", "n",
           "t", "e", "r", " ", "b", "u", "g", " ", "i", "n", " ", "p", "a", "r", "s", "e", "r">>,
     path |-> <<>>, old |-> <<>>, new |-> <<>>]

\* feat: add yaml front matter
B_feat ==
    [kind |-> "commit",
     text |-> <<"f", "e", "a", "t", ":", " ", "a", "d", "d", " ", "y", "a", "m", "l", " ", "f", "r",
           "o", "n", "t", " ", "m", "a", "t", "t", "e", "r">>,
     tag |-> <<>>, body |-> <<"a", "d", "d", " ", "y", "a", "m", "l", " ", "f", "r", "o", "n", "t", " ", "m", "a",
           "t", "t", "e", "r">>,
     path |-> <<>>, old |-> <<>>, new |-> <<>>]

\* - Update the parser module\n- Add regression tests\n- Update the parser module\n* short
B_bullets ==
    [kind |-> "commit",
     text |-> <<"-", " ", "U", "p", "d", "a", "t", "e", " ", "t", "h", "e", " ", "p", "a", "r", "s",
           "e", "r", " ", "m", "o", "d", "u", "l", "e", NL, "-", " ", "A", "d", "d", " ", "r",
           "e", "g", "r", "e", "s", "s", "i", "o", "n", " ", "t", "e", "s", "t", "s", NL, "-",
           " ", "U", "p", "d", "a", "t", "e", " ", "t", "h", "e", " ", "p", "a", "r", "s", "e",
           "r", " ", "m", "o", "d", "u", "l", "e", NL, "*", " ", "s", "h", "o", "r", "t">>,
     tag |-> <<>>, body |-> <<>>,
     path |-> <<>>, old |-> <<>>, new |-> <<>>]

\* 1. Refactor classifier order\n2. Document the extractor\n3. feat: add yaml front matter
B_numbered ==
    [kind |-> "commit",
     text |-> <<"1", ".", " ", "R", "e", "f", "a", "c", "t", "o", "r", " ", "c", "l", "a", "s", "s",
           "i", "f", "i", "e", "r", " ", "o", "r", "d", "e", "r", NL, "2", ".", " ", "D", "o",
           "c", "u", "m", "e", "n", "t", " ", "t", "h", "e", " ", "e", "x", "t", "r", "a", "c",
           "t", "o", "r", NL, "3", ".", " ", "f", "e", "a", "t", ":", " ", "a", "d", "d", " ",
           "y", "a", "m", "l", " ", "f", "r", "o", "n", "t", " ", "m", "a", "t", "t", "e", "r">>,
     tag |-> <<>>, body |-> <<>>,
     path |-> <<>>, old |-> <<>>, new |-> <<>>]

\* Commit Message: tiny
B_short ==
    [kind |-> "commit",
     text |-> <<"C", "o", "m", "m", "i", "t", " ", "M", "e", "s", "s", "a", "g", "e", ":", " ", "t",
           "i", "n", "y">>,
     tag |-> <<>>, body |-> <<>>,
     path |-> <<>>, old |-> <<>>, new |-> <<>>]

\* As said, Commit: Fix the null pointer bug in parser
B_inline ==
    [kind |-> "commit",
     text |-> <<"A", "s", " ", "s", "a", "i", "d", ",", " ", "C", "o", "m", "m", "i", "t", ":", " ",
           "F", "i", "x", " ", "t", "h", "e", " ", "n", "u", "l", "l", " ", "p", "o", "i", "n",
           "t", "e", "r", " ", "b", "u", "g", " ", "i", "n", " ", "p", "a", "r", "s", "e", "r">>,
     tag |-> <<>>, body |-> <<"F", "i", "x", " ", "t", "h", "e", " ", "n", "u", "l", "l", " ", "p", "o", "i", "n",
           "t", "e", "r", " ", "b", "u", "g", " ", "i", "n", " ", "p", "a", "r", "s", "e", "r">>,
     path |-> <<>>, old |-> <<>>, new |-> <<>>]

\* ```diff\n-x = 1\n+x = 2\n```
B_diff_body ==
    <<"-", "x", " ", "=", " ", "1", NL, "+", "x", " ", "=", " ", "2">>

B_diff ==
    [kind |-> "fence",
     text |-> FENCE \o <<"d", "i", "f", "f">> \o <<NL>> \o B_diff_body \o NLFENCE,
     tag |-> <<"d", "i", "f", "f">>, body |-> B_diff_body,
     path |-> <<>>, old |-> <<>>, new |-> <<>>]

\* --- a/bar.py\n+++ b/bar.py\n@@ -3,1 +3,1 @@\n-a\n+b
B_raw_diff ==
    [kind |-> "raw_diff",
     text |-> <<"-", "-", "-", " ", "a", "/", "b", "a", "r", ".", "p", "y", NL, "+", "+", "+", " ",
           "b", "/", "b", "a", "r", ".", "p", "y", NL, "@", "@", " ", "-", "3", ",", "1", " ",
           "+", "3", ",", "1", " ", "@", "@", NL, "-", "a", NL, "+", "b">>,
     tag |-> <<>>, body |-> <<>>,
     path |-> <<>>, old |-> <<>>, new |-> <<>>]

\* @@ -1,1 +1,1 @@\n-p\n+q
B_hunk ==
    [kind |-> "hunk",
     text |-> <<"@", "@", " ", "-", "1", ",", "1", " ", "+", "1", ",", "1", " ", "@", "@", NL, "-",
           "p", NL, "+", "q">>,
     tag |-> <<>>, body |-> <<>>,
     path |-> <<>>, old |-> <<>>, new |-> <<>>]

\* Replace: "old_value" -> "new_value"
B_replace_word ==
    [kind |-> "replace",
     text |-> <<"R", "e", "p", "l", "a", "c", "e", ":", " ">>
             \o <<DQ>> \o <<"o", "l", "d", "_", "v", "a", "l", "u", "e">> \o <<DQ, " ", ARROW, " ", DQ>> \o <<"n", "e", "w", "_", "v", "a", "l", "u", "e">> \o <<DQ>>,
     tag |-> <<>>, body |-> <<>>,
     path |-> <<>>, old |-> <<"o", "l", "d", "_", "v", "a", "l", "u", "e">>, new |-> <<"n", "e", "w", "_", "v", "a", "l", "u", "e">>]

\* Replace: "old value" -> "new value"
B_replace_words ==
    [kind |-> "replace",
     text |-> <<"R", "e", "p", "l", "a", "c", "e", ":", " ">>
             \o <<DQ>> \o <<"o", "l", "d", " ", "v", "a", "l", "u", "e">> \o <<DQ, " ", ARROW, " ", DQ>> \o <<"n", "e", "w", " ", "v", "a", "l", "u", "e">> \o <<DQ>>,
     tag |-> <<>>, body |-> <<>>,
     path |-> <<>>, old |-> <<"o", "l", "d", " ", "v", "a", "l", "u", "e">>, new |-> <<"n", "e", "w", " ", "v", "a", "l", "u", "e">>]

\* an empty line
B_blank ==
    [kind |-> "blank",
     text |-> <<>>,
     tag |-> <<>>, body |-> <<>>,
     path |-> <<>>, old |-> <<>>, new |-> <<>>]

\* Here is the fix
B_intro ==
    [kind |-> "prose",
     text |-> <<"H", "e", "r", "e", " ", "i", "s", " ", "t", "h", "e", " ", "f", "i", "x">>,
     tag |-> <<>>, body |-> <<>>,
     path |-> <<>>, old |-> <<>>, new |-> <<>>]

\* ## Changes\n- src/app.py
B_changes_section ==
    [kind |-> "heading",
     text |-> <<"#", "#", " ", "C", "h", "a", "n", "g", "e", "s", NL, "-", " ", "s", "r", "c", "/",
           "a", "p", "p", ".", "p", "y">>,
     tag |-> <<"C", "h", "a", "n", "g", "e", "s">>, body |-> <<"-", " ", "s", "r", "c", "/", "a", "p", "p", ".", "p", "y">>,
     path |-> <<>>, old |-> <<>>, new |-> <<>>]

\* ## Summary\nParser rewritten
B_summary_section ==
    [kind |-> "heading",
     text |-> <<"#", "#", " ", "S", "u", "m", "m", "a", "r", "y", NL, "P", "a", "r", "s", "e", "r",
           " ", "r", "e", "w", "r", "i", "t", "t", "e", "n">>,
     tag |-> <<"S", "u", "m", "m", "a", "r", "y">>, body |-> <<"P", "a", "r", "s", "e", "r", " ", "r", "e", "w", "r", "i", "t", "t", "e", "n">>,
     path |-> <<>>, old |-> <<>>, new |-> <<>>]

\* ## Notes\nCheck the docs
B_notes_section ==
    [kind |-> "heading",
     text |-> <<"#", "#", " ", "N", "o", "t", "e", "s", NL, "C", "h", "e", "c", "k", " ", "t", "h",
           "e", " ", "d", "o", "c", "s">>,
     tag |-> <<"N", "o", "t", "e", "s">>, body |-> <<"C", "h", "e", "c", "k", " ", "t", "h", "e", " ", "d", "o", "c", "s">>,
     path |-> <<>>, old |-> <<>>, new |-> <<>>]


\* ```json\n[{"file_path": "a.py"}, {"file_path": "b.py"}]\n```
B_json_list_body ==
    <<"[", "{", DQ, "f", "i", "l", "e", "_", "p", "a", "t", "h", DQ, ":", " ", DQ, "a", ".",
      "p", "y", DQ, "}", ",", " ", "{", DQ, "f", "i", "l", "e", "_", "p", "a", "t", "h", DQ,
      ":", " ", DQ, "b", ".", "p", "y", DQ, "}", "]">>

B_json_list ==
    [kind |-> "fence",
     text |-> FENCE \o <<"j", "s", "o", "n">> \o <<NL>> \o B_json_list_body \o NLFENCE,
     tag |-> <<"j", "s", "o", "n">>, body |-> B_json_list_body,
     path |-> <<>>, old |-> <<>>, new |-> <<>>,
     items |-> <<PyDict((K_file_path :> PyStr(<<"a", ".", "p", "y">>))), PyDict((K_file_path :> PyStr(<<"b", ".", "p", "y">>)))>>,
     keys |-> <<>>]

\* ```json\n{"changes": [{"file_path": "c.py"}], "note": "third"}\n```
B_json_changes_body ==
    <<"{", DQ, "c", "h", "a", "n", "g", "e", "s", DQ, ":", " ", "[", "{", DQ, "f", "i", "l",
      "e", "_", "p", "a", "t", "h", DQ, ":", " ", DQ, "c", ".", "p", "y", DQ, "}", "]", ",",
      " ", DQ, "n", "o", "t", "e", DQ, ":", " ", DQ, "t", "h", "i", "r", "d", DQ, "}">>

B_json_changes ==
    [kind |-> "fence",
     text |-> FENCE \o <<"j", "s", "o", "n">> \o <<NL>> \o B_json_changes_body \o NLFENCE,
     tag |-> <<"j", "s", "o", "n">>, body |-> B_json_changes_body,
     path |-> <<>>, old |-> <<>>, new |-> <<>>,
     items |-> <<PyDict((K_file_path :> PyStr(<<"c", ".", "p", "y">>)))>>,
     keys |-> <<>>]

\* ```json\n{"note": "first", "extra": 1}\n```
B_json_note_body ==
    <<"{", DQ, "n", "o", "t", "e", DQ, ":", " ", DQ, "f", "i", "r", "s", "t", DQ, ",", " ",
      DQ, "e", "x", "t", "r", "a", DQ, ":", " ", "1", "}">>

B_json_note ==
    [kind |-> "fence",
     text |-> FENCE \o <<"j", "s", "o", "n">> \o <<NL>> \o B_json_note_body \o NLFENCE,
     tag |-> <<"j", "s", "o", "n">>, body |-> B_json_note_body,
     path |-> <<>>, old |-> <<>>, new |-> <<>>,
     items |-> <<>>,
     keys |-> (<<"n", "o", "t", "e">> :> PyStr(<<"f", "i", "r", "s", "t">>)) @@ (<<"e", "x", "t", "r", "a">> :> PyInt(1))]

\* ```json\n{"note": "second"}\n```
B_json_renote_body ==
    <<"{", DQ, "n", "o", "t", "e", DQ, ":", " ", DQ, "s", "e", "c", "o", "n", "d", DQ, "}">>

B_json_renote ==
    [kind |-> "fence",
     text |-> FENCE \o <<"j", "s", "o", "n">> \o <<NL>> \o B_json_renote_body \o NLFENCE,
     tag |-> <<"j", "s", "o", "n">>, body |-> B_json_renote_body,
     path |-> <<>>, old |-> <<>>, new |-> <<>>,
     items |-> <<>>,
     keys |-> (<<"n", "o", "t", "e">> :> PyStr(<<"s", "e", "c", "o", "n", "d">>))]

\* ```json\n{"note": oops\n```
B_json_broken_body ==
    <<"{", DQ, "n", "o", "t", "e", DQ, ":", " ", "o", "o", "p", "s">>

B_json_broken ==
    [kind |-> "fence",
     text |-> FENCE \o <<"j", "s", "o", "n">> \o <<NL>> \o B_json_broken_body \o NLFENCE,
     tag |-> <<"j", "s", "o", "n">>, body |-> B_json_broken_body,
     path |-> <<>>, old |-> <<>>, new |-> <<>>,
     items |-> <<>>,
     keys |-> <<>>]

\* ```\nls -l\n```
B_untagged_body ==
    <<"l", "s", " ", "-", "l">>

B_untagged ==
    [kind |-> "fence",
     text |-> FENCE \o <<NL>> \o B_untagged_body \o NLFENCE,
     tag |-> <<>>, body |-> B_untagged_body,
     path |-> <<>>, old |-> <<>>, new |-> <<>>]


\* File: src/app.py
B_file_app ==
    [kind |-> "label",
     text |-> <<"F", "i", "l", "e", ":", " ", "s", "r", "c", "/", "a", "p", "p", ".", "p", "y">>,
     tag |-> <<>>, body |-> <<>>,
     path |-> <<>>, old |-> <<>>, new |-> <<>>,
     finds |-> <<<<<<"s", "r", "c", "/", "a", "p", "p", ".", "p", "y">>>>, <<<<"s", "r", "c", "/", "a", "p", "p", ".", "p", "y">>>>, <<>>, <<>>>>]

\* File: README
B_file_readme ==
    [kind |-> "label",
     text |-> <<"F", "i", "l", "e", ":", " ", "R", "E", "A", "D", "M", "E">>,
     tag |-> <<>>, body |-> <<>>,
     path |-> <<>>, old |-> <<>>, new |-> <<>>,
     finds |-> <<<<<<"R", "E", "A", "D", "M", "E">>>>, <<<<"R", "E", "A", "D", "M", "E">>>>, <<>>, <<>>>>]

\* File:   docs/guide.md  
B_file_guide ==
    [kind |-> "label",
     text |-> <<"F", "i", "l", "e", ":", " ", " ", " ", "d", "o", "c", "s", "/", "g", "u", "i", "d",
           "e", ".", "m", "d", " ", " ">>,
     tag |-> <<>>, body |-> <<>>,
     path |-> <<>>, old |-> <<>>, new |-> <<>>,
     finds |-> <<<<<<"d", "o", "c", "s", "/", "g", "u", "i", "d", "e", ".", "m", "d", " ", " ">>>>, <<<<"d", "o", "c", "s", "/", "g", "u", "i", "d", "e", ".", "m", "d", " ", " ">>>>, <<>>, <<>>>>]

\* - utils.py and more
B_item_utils ==
    [kind |-> "item",
     text |-> <<"-", " ", "u", "t", "i", "l", "s", ".", "p", "y", " ", "a", "n", "d", " ", "m", "o",
           "r", "e">>,
     tag |-> <<>>, body |-> <<>>,
     path |-> <<>>, old |-> <<>>, new |-> <<>>,
     finds |-> <<<<>>, <<>>, <<<<"u", "t", "i", "l", "s", ".", "p", "y">>>>, <<>>>>]

\* Then change the file .gitignore too
B_verb_file ==
    [kind |-> "prose",
     text |-> <<"T", "h", "e", "n", " ", "c", "h", "a", "n", "g", "e", " ", "t", "h", "e", " ", "f",
           "i", "l", "e", " ", ".", "g", "i", "t", "i", "g", "n", "o", "r", "e", " ", "t", "o", "o">>,
     tag |-> <<>>, body |-> <<>>,
     path |-> <<>>, old |-> <<>>, new |-> <<>>,
     finds |-> <<<<>>, <<<<".", "g", "i", "t", "i", "g", "n", "o", "r", "e", " ", "t", "o", "o">>>>, <<>>, <<<<".", "g", "i", "t", "i", "g", "n", "o", "r", "e">>>>>>]

\* Nothing else to do
B_nothing ==
    [kind |-> "prose",
     text |-> <<"N", "o", "t", "h", "i", "n", "g", " ", "e", "l", "s", "e", " ", "t", "o", " ", "d", "o">>,
     tag |-> <<>>, body |-> <<>>,
     path |-> <<>>, old |-> <<>>, new |-> <<>>,
     finds |-> <<<<>>, <<>>, <<>>, <<>>>>]

\* File:  
B_file_only ==
    [kind |-> "label_only",
     text |-> <<"F", "i", "l", "e", ":", " ", " ">>,
     tag |-> <<>>, body |-> <<>>,
     path |-> <<>>, old |-> <<>>, new |-> <<>>,
     finds |-> <<<<<<" ">>>>, <<<<" ">>>>, <<>>, <<>>>>]


Pool ==
    << B_json_object, B_json_array, B_broken_json, B_front_matter, B_summary, B_python,
       B_json_code_blocks, B_json_sections, B_prose, B_patch,
       B_commit, B_quoted, B_feat, B_bullets, B_numbered, B_short, B_inline,
       B_diff, B_raw_diff, B_hunk, B_replace_word, B_replace_words, B_blank, B_intro,
       B_changes_section, B_summary_section, B_notes_section,
       B_json_list, B_json_changes, B_json_note, B_json_renote, B_json_broken, B_untagged,
       B_file_app, B_file_readme, B_file_guide, B_item_utils, B_verb_file, B_nothing,
       B_file_only >>

\* the fragments of the responses of mixed shapes
ShapeFragments == 1..10

\* the fragments of the responses that carry commit messages
CommitFragments == 11..17

\* the fragments of the responses that carry patches
PatchFragments == {6, 10} \cup (18..24)

\* the fragments of the markdown documents
MarkdownFragments == 24..27

\* the fragments of the documents with fenced blocks
MixedFragments == {6, 24} \cup (28..33)

\* the fragments of the texts that name files
ChangeFragments == 34..40

\* the largest number of fragments of a response
MaxBlocks == 2

\* the position in content of the first character of fragment n of bs
RECURSIVE Offset(_, _)
Offset(bs, n) == IF n = 1 THEN 1 ELSE Offset(bs, n - 1) + Len(Pool[bs[n - 1]].text) + 1

\* the text of the response made of the fragments bs
Render(bs) == JoinLines([n \in 1..Len(bs) |-> Pool[bs[n]].text])

Responses(fragments) == UNION {[1..n -> fragments] : n \in 1..MaxBlocks}

-----------------------------------------------------------------------------
(* The processor *)

None == [t |-> "none", v |-> 0]

\* self.parsers of __init__: the shape parser registered for a tag
Parsers ==
    (K_json :> "json") @@ (K_markdown :> "markdown") @@ (K_text :> "text") @@ (K_mixed :> "mixed")

\* self.parsers.get(response_type, self._parse_markdown_response)
ParserForOrMarkdown(tag) == IF tag \in DOMAIN Parsers THEN Parsers[tag] ELSE "markdown"

\* self.parsers.get(response_type, self._parse_text_response)
ParserFor(tag) == IF tag \in DOMAIN Parsers THEN Parsers[tag] ELSE "text"

\* the call of the shape parser p on the text s
RunParser(p, s) ==
    CASE p = "json" -> ParseJsonResponse(s)
      [] p = "markdown" -> ParseMarkdownResponse(s)
      [] p = "text" -> ParseTextResponse(s)
      [] p = "mixed" -> ParseMixedResponse(s)

\* parsed_data.setdefault(key, value): a key the record holds already keeps its value
AssignIfAbsent(data, key, value) ==
    IF data.t # "dict" THEN Raise("TypeError")
    ELSE IF key \in DOMAIN data.v THEN data
    ELSE PyDict(SetItem(data.v, key, value))

\* parsed_data[key] = value: a dict takes the key, a list raises TypeError
Assign(data, key, value) ==
    IF data.t = "dict" THEN PyDict(SetItem(data.v, key, value)) ELSE Raise("TypeError")

\* the metadata record; the path of the file and the clock are outside the
\* pipeline and stand as None
Metadata(tag, s) ==
    PyDict((K_response_file :> None) @@ (K_response_type :> PyStr(tag))
           @@ (K_parsed_at :> None) @@ (K_content_length :> PyInt(Len(s))))

\* nothing has run yet
AtStart ==
    /\ validation_results = None
    /\ branch_name = None
    /\ applied_patches = <<>>
    /\ attempts = <<>>
    /\ repo = [branches |-> <<>>, patches |-> <<>>, scripts |-> <<>>]
    /\ written = {}
    /\ stats = None
    /\ extracted_files = <<>>
    /\ analysis = None
    /\ walked = 0

InitOver(fragments) ==
    /\ blocks \in Responses(fragments)
    /\ content = Render(blocks)
    /\ yaml_ok \in YamlVerdicts(content)
    /\ pc = "ready"
    /\ called = "none"
    /\ response_type = <<>>
    /\ parser_used = "none"
    /\ parsed_data = None
    /\ result = None
    /\ args = None
    /\ tree = <<>>
    /\ AtStart

Init == InitOver(ShapeFragments)

InitCommits == InitOver(CommitFragments)

InitPatches == InitOver(PatchFragments)

InitMarkdown == InitOver(MarkdownFragments)

InitMixed == InitOver(MixedFragments)

InitChanges == InitOver(ChangeFragments)

\* parse_response, line 29: the text is read and classified
Classify ==
    /\ pc = "ready"
    /\ called' = "parse_response"
    /\ response_type' = DetectResponseType(content, yaml_ok)
    /\ pc' = "dispatch"
    /\ UNCHANGED <<blocks, content, yaml_ok, parser_used, parsed_data, result, commands>>

\* what a step of parse_response that computed r leads to: an exception
\* leaves the call, a value becomes the record and the call goes on at next
Proceed(r, next) ==
    IF r.t = "raise"
    THEN /\ result' = r
         /\ pc' = "raised"
         /\ UNCHANGED parsed_data
    ELSE /\ parsed_data' = r
         /\ pc' = next
         /\ UNCHANGED result

\* parse_response, lines 32-33: the shape parser of the tag runs
Dispatch ==
    /\ pc = "dispatch"
    /\ parser_used' = ParserFor(response_type)
    /\ Proceed(RunParser(ParserFor(response_type), content), "patches")
    /\ UNCHANGED <<blocks, content, yaml_ok, called, response_type, commands>>

\* one assignment parsed_data[key] = value of parse_response
Attach(at, key, value, next) ==
    /\ pc = at
    /\ Proceed(Assign(parsed_data, key, value), next)
    /\ UNCHANGED <<blocks, content, yaml_ok, called, response_type, parser_used, commands>>

\* parse_response, line 36
AttachPatches == Attach("patches", K_patches, PyList(ExtractPatches(content)), "commits")

\* parse_response, line 39
AttachCommits ==
    Attach("commits", K_commits, PyList(MapSeq(ExtractCommitMessages(content), PyStr)),
           "metadata")

\* parse_response, lines 42-47
AttachMetadata == Attach("metadata", K_metadata, Metadata(response_type, content), "return")

\* parse_response, line 49
Return ==
    /\ pc = "return"
    /\ result' = parsed_data
    /\ pc' = "returned"
    /\ UNCHANGED <<blocks, content, yaml_ok, called, response_type, parser_used, parsed_data, commands>>

ShapeParsers == {"json", "markdown", "text", "mixed"}

\* a call made by itself ends with the value r or with the exception r
Finish(r) ==
    /\ result' = r
    /\ pc' = IF r.t = "raise" THEN "raised" ELSE "returned"

\* a shape parser called on the text by itself
CallShapeParser ==
    /\ pc = "ready"
    /\ \E p \in ShapeParsers :
          /\ called' = p
          /\ Finish(RunParser(p, content))
    /\ UNCHANGED <<blocks, content, yaml_ok, response_type, parser_used, parsed_data, commands>>

\* _extract_patches called on the text by itself
CallExtractPatches ==
    /\ pc = "ready"
    /\ called' = "_extract_patches"
    /\ result' = PyList(ExtractPatches(content))
    /\ pc' = "returned"
    /\ UNCHANGED <<blocks, content, yaml_ok, response_type, parser_used, parsed_data, commands>>

\* _extract_commit_messages called on the text by itself
CallExtractCommitMessages ==
    /\ pc = "ready"
    /\ called' = "_extract_commit_messages"
    /\ result' = PyList(MapSeq(ExtractCommitMessages(content), PyStr))
    /\ pc' = "returned"
    /\ UNCHANGED <<blocks, content, yaml_ok, response_type, parser_used, parsed_data, commands>>

\* _extract_changes_from_text called on the text by itself
CallExtractChanges ==
    /\ pc = "ready"
    /\ called' = "_extract_changes_from_text"
    /\ result' = PyList(ExtractChangesFromText(content))
    /\ pc' = "returned"
    /\ UNCHANGED <<blocks, content, yaml_ok, response_type, parser_used, parsed_data, commands>>

Next ==
    \/ Classify
    \/ Dispatch
    \/ AttachPatches
    \/ AttachCommits
    \/ AttachMetadata
    \/ Return
    \/ CallShapeParser
    \/ CallExtractPatches
    \/ CallExtractCommitMessages
    \/ CallExtractChanges

Spec == Init /\ [][Next]_vars

SpecCommits == InitCommits /\ [][Next]_vars

SpecPatches == InitPatches /\ [][Next]_vars

SpecMarkdown == InitMarkdown /\ [][Next]_vars

SpecMixed == InitMixed /\ [][Next]_vars

SpecChanges == InitChanges /\ [][Next]_vars


-----------------------------------------------------------------------------
(* The command process: process_llm_response of src/llm2git/main.py        *)

PyBool(b) == [t |-> "bool", v |-> b]

\* bool(x) of Python
Truthy(x) ==
    CASE x.t = "none" -> FALSE
      [] x.t = "bool" -> x.v
      [] x.t = "int" -> x.v # 0
      [] x.t = "dict" -> DOMAIN x.v # {}
      [] OTHER -> x.v # <<>>

\* d.get(key, default) on a dict payload
Get(f, key, default) == IF key \in DOMAIN f THEN f[key] ELSE default

\* the values --create-branch is given: absent, 'auto', a name
BranchOptions == {None, PyStr(K_auto), PyStr(<<"f", "i", "x">>)}

\* the options of the process command (src/cli.py)
ProcessArgs ==
    [command : {"process"}, apply : BOOLEAN, dry_run : BOOLEAN, create_branch : BranchOptions,
     validate_only : BOOLEAN]

\* the subsequences of a sequence
RECURSIVE Subsequences(_)
Subsequences(xs) ==
    IF xs = <<>> THEN {<<>>}
    ELSE Subsequences(Tail(xs)) \cup {<<Head(xs)>> \o ys : ys \in Subsequences(Tail(xs))}

\* the items of xs that are not in ys
Others(xs, ys) == SelectSeq(xs, LAMBDA x : \A k \in 1..Len(ys) : ys[k] # x)

\* parsed_response.get('changes')
Changes == Get(parsed_data.v, K_changes, None)

\* the early returns of lines 36 and 45
Failure(error) == PyDict((K_success :> PyBool(FALSE)) @@ (K_error :> PyStr(error)))

\* process_llm_response ends with the exception e (lines 102-104)
Fails(e) ==
    /\ result' = e
    /\ pc' = "raised"

\* process_llm_response returns r
Returns(r) ==
    /\ result' = r
    /\ pc' = "returned"

\* lines 32-36: parse_response has returned the record; without changes the
\* command ends
CheckChanges ==
    /\ args # None /\ args.command = "process"
    /\ called = "parse_response" /\ pc = "returned"
    /\ called' = "process_llm_response"
    /\ IF Truthy(Changes) THEN pc' = "validate" /\ result' = None
       ELSE Returns(Failure(K_no_changes_found))
    /\ UNCHANGED <<blocks, content, yaml_ok, response_type, parser_used, parsed_data, commands>>

\* lines 32, 102-104: parse_response has raised; the exception is logged and
\* raised again
ParseFailed ==
    /\ args # None /\ args.command = "process"
    /\ called = "parse_response" /\ pc = "raised"
    /\ called' = "process_llm_response"
    /\ UNCHANGED <<blocks, content, yaml_ok, pc, response_type, parser_used, parsed_data, result,
                   commands>>

\* the test of line 43 with the second `not` left out
StopsIfValidating(valid) == valid = <<>> /\ args.validate_only

\* line 43: not valid_patches and not args.validate_only
StopsWithoutPatches(valid) == valid = <<>> /\ ~args.validate_only

\* lines 40-45, the validator having found the patches valid to be valid
Validated(patches, valid) ==
    /\ validation_results' = [valid |-> valid, invalid |-> Others(patches, valid)]
    /\ IF StopsWithoutPatches(valid) THEN Returns(Failure(K_no_valid_patches))
       ELSE pc' = "branch" /\ UNCHANGED result

\* lines 38-45: the validator sorts the patches; without a valid patch the
\* command ends, unless it only validates
Validate ==
    /\ called = "process_llm_response" /\ pc = "validate"
    /\ \E valid \in Subsequences(parsed_data.v[K_patches].v) :
          Validated(parsed_data.v[K_patches].v, valid)
    /\ UNCHANGED <<blocks, content, yaml_ok, called, response_type, parser_used, parsed_data,
                   args, branch_name, applied_patches, attempts, repo, written, tree, stats,
                   extracted_files, analysis, walked>>

BranchLimit == 30

\* str.replace(' ', '-')
Dashed(s) == [i \in 1..Len(s) |-> IF s[i] = " " THEN "-" ELSE s[i]]

\* line 55: the branch name made of a description
Described(d) ==
    IF d.t # "str" THEN Raise("AttributeError")
    ELSE PyStr(K_llm_slash \o Sub(Dashed(Lower(d.v)), 1, BranchLimit))

\* lines 53-55: the branch name made of the first change
AutoBranch(changes) ==
    IF changes.t = "dict" THEN Raise("KeyError")
    ELSE IF changes.t \notin {"list", "str"} THEN Raise("TypeError")
    ELSE IF changes.t = "str" \/ changes.v[1].t # "dict" THEN Raise("AttributeError")
    ELSE Described(Get(changes.v[1].v, K_description, PyStr(K_llm_changes)))

\* lines 50-55
BranchFor(option, changes) == IF option = PyStr(K_auto) THEN AutoBranch(changes) ELSE option

\* lines 57-58: git_ops.create_branch(name) creates the branch or raises
Branch(name) ==
    IF name.t = "raise" THEN Fails(name) /\ UNCHANGED <<branch_name, repo>>
    ELSE /\ branch_name' = name
         /\ \E created \in BOOLEAN :
               IF created
               THEN /\ repo' = [repo EXCEPT !.branches = Append(@, name)]
                    /\ pc' = "apply"
                    /\ UNCHANGED result
               ELSE Fails(Raise("GitError")) /\ UNCHANGED repo

\* lines 47-58: the branch is created if one is asked for
CreateBranch ==
    /\ called = "process_llm_response" /\ pc = "branch"
    /\ IF Truthy(args.create_branch) THEN Branch(BranchFor(args.create_branch, Changes))
       ELSE pc' = "apply" /\ UNCHANGED <<branch_name, repo, result>>
    /\ UNCHANGED <<blocks, content, yaml_ok, called, response_type, parser_used, parsed_data,
                   args, validation_results, applied_patches, attempts, written, tree, stats,
                   extracted_files, analysis, walked>>

\* line 62: args.apply and valid_patches and not args.dry_run
Applies(valid) == args.apply /\ valid # <<>> /\ ~args.dry_run

\* the loop of line 64 left at the first patch that fails
LoopDoneAtFailure(valid, tried) ==
    Len(tried) = Len(valid) \/ (tried # <<>> /\ ~tried[Len(tried)].applied)

\* line 64: the loop over valid_patches has come to its end
LoopDone(valid, tried) == Len(tried) = Len(valid)

\* lines 65-70: one patch is given to git_ops.apply_patch, which applies it
\* or raises; a patch that raised is logged and left out
Attempt(patch, applied) ==
    /\ attempts' = Append(attempts, [patch |-> patch, applied |-> applied])
    /\ applied_patches' = IF applied THEN Append(applied_patches, patch) ELSE applied_patches
    /\ repo' = IF applied THEN [repo EXCEPT !.patches = Append(@, patch.v[K_content])] ELSE repo

\* lines 62-70: the next valid patch is tried
ApplyPatch ==
    /\ called = "process_llm_response" /\ pc = "apply"
    /\ Applies(validation_results.valid)
    /\ ~LoopDone(validation_results.valid, attempts)
    /\ \E applied \in IF K_content \in DOMAIN validation_results.valid[Len(attempts) + 1].v
                      THEN BOOLEAN ELSE {FALSE} :
          Attempt(validation_results.valid[Len(attempts) + 1], applied)
    /\ UNCHANGED <<blocks, content, yaml_ok, pc, called, response_type, parser_used, parsed_data,
                   result, args, validation_results, branch_name, written, tree, stats,
                   extracted_files, analysis, walked>>

\* lines 6-11: the names the module imports
Imports ==
    {"json", "Path", "LLMResponseProcessor", "GitOperations", "PatchValidator", "setup_logger"}

ReportFile == "llm_implementation_report.md"

SummaryFile == "llm_summary.json"

\* generate_reports up to line 160: the implementation report is written if
\* every change can be listed
ReportWritten(changes) ==
    IF changes.t \in {"int", "bool"} THEN [wrote |-> {}, r |-> Raise("TypeError")]
    ELSE IF changes.t # "list" \/ \E k \in 1..Len(changes.v) : changes.v[k].t # "dict"
        THEN [wrote |-> {}, r |-> Raise("AttributeError")]
    ELSE [wrote |-> {ReportFile}, r |-> PyDict(K_implementation_report :> PyStr(ReportFile))]

\* generate_reports, lines 162-174: the summary names datetime
SummaryWritten(report) ==
    IF report.r.t = "raise" THEN report
    ELSE IF "datetime" \notin Imports THEN [wrote |-> report.wrote, r |-> Raise("NameError")]
    ELSE [wrote |-> report.wrote \cup {SummaryFile},
          r |-> PyDict(SetItem(report.r.v, K_summary_json, PyStr(SummaryFile)))]

\* generate_reports(parsed_response, validation_results, applied_patches, repo_path)
GenerateReports(changes) == SummaryWritten(ReportWritten(changes))

\* line 85: applied_patches and parsed_response.get('commits')
WantsScript(applied, commits) == applied # <<>> /\ Truthy(commits)

\* lines 94-100
Success(valid, applied, branch, reports) ==
    PyDict((K_success :> PyBool(TRUE)) @@ (K_valid_patches :> PyInt(Len(valid)))
           @@ (K_applied_patches :> PyInt(Len(applied))) @@ (K_branch :> branch)
           @@ (K_reports :> reports))

\* lines 84-100, the reports having been generated: the commit script is
\* generated if patches were applied and the response has commit messages
Complete(reports, commits) ==
    IF WantsScript(applied_patches, commits)
    THEN /\ repo' = [repo EXCEPT !.scripts = Append(@, [commits |-> commits, branch |-> branch_name])]
         /\ Returns(Success(validation_results.valid, applied_patches, branch_name,
                            PyDict(SetItem(reports.v, K_commit_script, PyStr(K_commit_script)))))
    ELSE /\ UNCHANGED repo
         /\ Returns(Success(validation_results.valid, applied_patches, branch_name, reports))

\* lines 75-104, generate_reports having done what report says
Conclude(report) ==
    /\ written' = written \cup report.wrote
    /\ IF report.r.t = "raise" THEN Fails(report.r) /\ UNCHANGED repo
       ELSE Complete(report.r, Get(parsed_data.v, K_commits, None))

\* lines 72-104: the patches being dealt with, the reports are written, the
\* commit script is generated and the command returns
Report ==
    /\ called = "process_llm_response" /\ pc = "apply"
    /\ Applies(validation_results.valid) => LoopDone(validation_results.valid, attempts)
    /\ Conclude(GenerateReports(Changes))
    /\ UNCHANGED <<blocks, content, yaml_ok, called, response_type, parser_used, parsed_data,
                   args, validation_results, branch_name, applied_patches, attempts, tree,
                   stats, extracted_files, analysis, walked>>

\* the fragments of the responses given to the process command
ProcessFragments == {2, 19, 21, 38, 39}

InitProcess ==
    /\ blocks \in Responses(ProcessFragments)
    /\ content = Render(blocks)
    /\ yaml_ok \in YamlVerdicts(content)
    /\ pc = "ready"
    /\ called = "none"
    /\ response_type = <<>>
    /\ parser_used = "none"
    /\ parsed_data = None
    /\ result = None
    /\ args \in ProcessArgs
    /\ tree = <<>>
    /\ AtStart

NextProcess ==
    \/ Classify
    \/ Dispatch
    \/ AttachPatches
    \/ AttachCommits
    \/ AttachMetadata
    \/ Return
    \/ CheckChanges
    \/ ParseFailed
    \/ Validate
    \/ CreateBranch
    \/ ApplyPatch
    \/ Report

SpecProcess == InitProcess /\ [][NextProcess]_vars
\* ---------------------------------------------------------------------
\* The convert command: convert_repository (src/git2llm/main.py) and the
\* RepositoryConverter it drives (src/git2llm/converter.py).  The files of
\* the repository lie in its root directory; a file is its name, its size in
\* bytes, whether its first bytes are text and whether it can be read.  The
\* project analyzer and the sanitizer are the environment.
\* ---------------------------------------------------------------------

\* the longest repository explored
MaxFiles == 2

\* s ends with the sequence tail
EndsWith(s, tail) ==
    Len(tail) <= Len(s) /\ SubSeq(s, Len(s) - Len(tail) + 1, Len(s)) = tail

\* s begins with the sequence head
BeginsWith(s, head) == Len(head) <= Len(s) /\ SubSeq(s, 1, Len(head)) = head

\* the '*.ext' patterns of source_patterns (docker-compose*.yml is among the
\* names that end with .yml)
SourceSuffixes ==
    { <<".", "p", "y">>, <<".", "j", "s">>, <<".", "t", "s">>, <<".", "j", "s", "x">>, <<".", "t", "s", "x">>, <<".", "j", "a", "v", "a">>,
      <<".", "c", "p", "p">>, <<".", "c">>, <<".", "h">>, <<".", "g", "o">>, <<".", "r", "s">>, <<".", "p", "h", "p">>,
      <<".", "r", "b">>, <<".", "s", "w", "i", "f", "t">>, <<".", "k", "t">>, <<".", "s", "c", "a", "l", "a">>, <<".", "s", "h">>, <<".", "b", "a", "s", "h">>,
      <<".", "s", "q", "l">>, <<".", "h", "t", "m", "l">>, <<".", "c", "s", "s">>, <<".", "s", "c", "s", "s">>, <<".", "s", "a", "s", "s">>, <<".", "j", "s", "o", "n">>,
      <<".", "x", "m", "l">>, <<".", "y", "a", "m", "l">>, <<".", "y", "m", "l">>, <<".", "t", "o", "m", "l">>, <<".", "i", "n", "i">>, <<".", "c", "f", "g">>,
      <<".", "c", "o", "n", "f">>, <<".", "d", "o", "c", "k", "e", "r", "f", "i", "l", "e">>, <<".", "m", "k">>, <<".", "m", "d">>, <<".", "t", "x", "t">>, <<".", "r", "s", "t">>,
      <<".", "t", "e", "x">> }

\* the patterns of source_patterns that are whole names
SourceNames ==
    { <<"D", "o", "c", "k", "e", "r", "f", "i", "l", "e">>, <<"M", "a", "k", "e", "f", "i", "l", "e">>, <<"C", "M", "a", "k", "e", "L", "i", "s", "t", "s", ".", "t", "x", "t">> }

\* the '*.ext' patterns of exclude_patterns (the other patterns name
\* directories)
ExcludeSuffixes ==
    { <<".", "p", "y", "c">>, <<".", "p", "y", "o">>, <<".", "p", "y", "d">>, <<".", "s", "o">>, <<".", "d", "l", "l">>, <<".", "d", "y", "l", "i", "b">>,
      <<".", "c", "l", "a", "s", "s">>, <<".", "j", "a", "r">>, <<".", "w", "a", "r">>, <<".", "e", "a", "r">>, <<".", "b", "i", "n">>, <<".", "e", "x", "e">>,
      <<".", "j", "p", "g">>, <<".", "j", "p", "e", "g">>, <<".", "p", "n", "g">>, <<".", "g", "i", "f">>, <<".", "b", "m", "p">>, <<".", "i", "c", "o">>,
      <<".", "s", "v", "g">>, <<".", "p", "d", "f">>, <<".", "d", "o", "c">>, <<".", "d", "o", "c", "x">>, <<".", "x", "l", "s">>, <<".", "x", "l", "s", "x">>,
      <<".", "p", "p", "t">>, <<".", "p", "p", "t", "x">>, <<".", "z", "i", "p">>, <<".", "t", "a", "r">>, <<".", "g", "z">>, <<".", "r", "a", "r">>,
      <<".", "7", "z">>, <<".", "b", "z", "2">>, <<".", "l", "o", "g">>, <<".", "t", "m", "p">>, <<".", "t", "e", "m", "p">>, <<".", "s", "w", "p">>,
      <<".", "s", "w", "o">> }

\* the names of lines 87-89
ReadmeNames ==
    { <<"r", "e", "a", "d", "m", "e">>, <<"r", "e", "a", "d", "m", "e", ".", "m", "d">>,
      <<"r", "e", "a", "d", "m", "e", ".", "t", "x", "t">>, <<"l", "i", "c", "e", "n", "s", "e">>,
      <<"l", "i", "c", "e", "n", "s", "e", ".", "t", "x", "t">>, <<"l", "i", "c", "e", "n", "s", "e", ".", "m", "d">>,
      <<"c", "o", "n", "t", "r", "i", "b", "u", "t", "i", "n", "g", ".", "m", "d">>, <<"c", "h", "a", "n", "g", "e", "l", "o", "g", ".", "m", "d">> }

\* doc_patterns of _is_documentation
DocSuffixes ==
    { <<".", "m", "d">>, <<".", "t", "x", "t">>, <<".", "r", "s", "t">>, <<".", "t", "e", "x">>, <<".", "a", "d", "o", "c">> }

\* doc_names of _is_documentation, each followed by *
DocNames ==
    { <<"r", "e", "a", "d", "m", "e">>, <<"l", "i", "c", "e", "n", "s", "e">>,
      <<"c", "o", "n", "t", "r", "i", "b", "u", "t", "i", "n", "g">>, <<"c", "h", "a", "n", "g", "e", "l", "o", "g">> }

\* extension_map of _get_file_type
ExtensionMap ==
    (<<".", "p", "y">> :> <<"p", "y", "t", "h", "o", "n">>) @@
    (<<".", "j", "s">> :> <<"j", "a", "v", "a", "s", "c", "r", "i", "p", "t">>) @@
    (<<".", "t", "s">> :> <<"t", "y", "p", "e", "s", "c", "r", "i", "p", "t">>) @@
    (<<".", "j", "s", "x">> :> <<"r", "e", "a", "c", "t", "-", "j", "s", "x">>) @@
    (<<".", "t", "s", "x">> :> <<"r", "e", "a", "c", "t", "-", "t", "s", "x">>) @@
    (<<".", "j", "a", "v", "a">> :> <<"j", "a", "v", "a">>) @@
    (<<".", "c", "p", "p">> :> <<"c", "p", "p">>) @@
    (<<".", "c">> :> <<"c">>) @@
    (<<".", "h">> :> <<"h", "e", "a", "d", "e", "r">>) @@
    (<<".", "g", "o">> :> <<"g", "o">>) @@
    (<<".", "r", "s">> :> <<"r", "u", "s", "t">>) @@
    (<<".", "p", "h", "p">> :> <<"p", "h", "p">>) @@
    (<<".", "r", "b">> :> <<"r", "u", "b", "y">>) @@
    (<<".", "s", "w", "i", "f", "t">> :> <<"s", "w", "i", "f", "t">>) @@
    (<<".", "k", "t">> :> <<"k", "o", "t", "l", "i", "n">>) @@
    (<<".", "s", "h">> :> <<"s", "h", "e", "l", "l">>) @@
    (<<".", "s", "q", "l">> :> <<"s", "q", "l">>) @@
    (<<".", "h", "t", "m", "l">> :> <<"h", "t", "m", "l">>) @@
    (<<".", "c", "s", "s">> :> <<"c", "s", "s">>) @@
    (<<".", "j", "s", "o", "n">> :> <<"j", "s", "o", "n">>) @@
    (<<".", "y", "a", "m", "l">> :> <<"y", "a", "m", "l">>) @@
    (<<".", "y", "m", "l">> :> <<"y", "a", "m", "l">>) @@
    (<<".", "t", "o", "m", "l">> :> <<"t", "o", "m", "l">>) @@
    (<<".", "m", "d">> :> <<"m", "a", "r", "k", "d", "o", "w", "n">>) @@
    (<<".", "t", "x", "t">> :> <<"t", "e", "x", "t">>)

\* Path.suffix: the name from its last dot on, empty when the name has no dot
\* after its first character
Suffix(name) ==
    LET dots == {i \in 2..Len(name) : name[i] = "."}
    IN  IF dots = {} THEN <<>>
        ELSE SubSeq(name, CHOOSE i \in dots : \A j \in dots : j <= i, Len(name))

\* lines 66-68 of should_include
Excluded(name) == \E tail \in ExcludeSuffixes : EndsWith(name, tail)

\* lines 82-94 of should_include, for a file of the right size
Wanted(file) ==
    \/ \E tail \in SourceSuffixes : EndsWith(file.name, tail)
    \/ file.name \in SourceNames
    \/ Lower(file.name) \in ReadmeNames
    \/ file.text

\* _get_file_type
GetFileType(name) ==
    IF Lower(Suffix(name)) \in DOMAIN ExtensionMap THEN ExtensionMap[Lower(Suffix(name))]
    ELSE <<"u", "n", "k", "n", "o", "w", "n">>

\* _is_documentation
IsDocumentation(name) ==
    \/ \E tail \in DocSuffixes : EndsWith(name, tail)
    \/ \E head \in DocNames : BeginsWith(Lower(name), head)

\* 1024 * 1024 of line 30
Mebibyte == 1024 * 1024

Large == 2 * Mebibyte

\* the files a repository is made of
RepoFiles ==
    { [name |-> <<"a", "p", "p", ".", "p", "y">>, size |-> 120, text |-> TRUE, readable |-> TRUE],
      [name |-> <<"d", "u", "m", "p", ".", "s", "q", "l">>, size |-> Large, text |-> TRUE, readable |-> TRUE],
      [name |-> <<"l", "o", "g", "o", ".", "p", "n", "g">>, size |-> 120, text |-> FALSE, readable |-> TRUE],
      [name |-> <<"R", "E", "A", "D", "M", "E">>, size |-> 120, text |-> TRUE, readable |-> TRUE],
      [name |-> <<"n", "o", "t", "e", "s", ".", "m", "d">>, size |-> 120, text |-> TRUE, readable |-> FALSE],
      [name |-> <<"c", "o", "r", "e">>, size |-> 120, text |-> FALSE, readable |-> TRUE] }

Trees == UNION {[1..n -> RepoFiles] : n \in 1..MaxFiles}

\* the options of the convert command (src/cli.py, lines 27-32)
ConvertArgs ==
    [command : {"convert"}, max_size : {1, 3}, include_docs : BOOLEAN, no_sanitize : BOOLEAN]

\* what datetime.now() can return
Ticks == {1, 2}

PyDatetime(n) == [t |-> "datetime", v |-> n]

\* self.stats of RepositoryConverter.__init__ (lines 51-59)
NewStats ==
    PyDict((K_total_files :> PyInt(0)) @@ (K_processed_files :> PyInt(0))
           @@ (K_skipped_files :> PyInt(0)) @@ (K_skipped_size :> PyInt(0))
           @@ (K_total_size :> PyInt(0)) @@ (K_start_time :> None) @@ (K_end_time :> None))

\* self.stats[key] += n
Add(s, key, n) == PyDict(SetItem(s.v, key, PyInt(s.v[key].v + n)))

\* self.stats[key] = value
Put(s, key, value) == PyDict(SetItem(s.v, key, value))

\* convert_repository ends with the exception e (lines 78-80)
ConvertFails(e) ==
    /\ result' = Raise(e)
    /\ pc' = "raised"

\* lines 24-32: the components are built and configured
Construct ==
    /\ args # None /\ args.command = "convert"
    /\ called = "none" /\ pc = "ready"
    /\ called' = "convert_repository"
    /\ stats' = NewStats
    /\ pc' = "analyze"
    /\ UNCHANGED <<blocks, content, yaml_ok, response_type, parser_used, parsed_data, result,
                   args, validation_results, branch_name, applied_patches, attempts, repo,
                   written, tree, extracted_files, analysis, walked>>

\* what the analyzer returns for a project
Analyses ==
    { PyDict(K_type :> PyStr(<<"p", "y", "t", "h", "o", "n">>)),
      PyDict(K_type :> PyStr(<<"u", "n", "k", "n", "o", "w", "n">>)) }

\* line 37: the analyzer returns a description of the project, or raises
Analyze ==
    /\ called = "convert_repository" /\ pc = "analyze"
    /\ \/ \E a \in Analyses : analysis' = a /\ pc' = "extract" /\ UNCHANGED result
       \/ ConvertFails("AnalyzerError") /\ UNCHANGED analysis
    /\ UNCHANGED <<blocks, content, yaml_ok, called, response_type, parser_used, parsed_data,
                   args, validation_results, branch_name, applied_patches, attempts, repo,
                   written, tree, stats, extracted_files, walked>>

\* extract_files, lines 119-121
StartExtract ==
    /\ called = "convert_repository" /\ pc = "extract"
    /\ \E now \in Ticks : stats' = Put(stats, K_start_time, PyDatetime(now))
    /\ extracted_files' = <<>>
    /\ walked' = 0
    /\ pc' = "walk"
    /\ UNCHANGED <<blocks, content, yaml_ok, called, response_type, parser_used, parsed_data,
                   result, args, validation_results, branch_name, applied_patches, attempts,
                   repo, written, tree, analysis>>

\* the entry extract_files appends for a file (lines 136-142); the content is
\* not kept
FileEntry(file) ==
    PyDict((K_path :> PyStr(file.name)) @@ (K_size :> PyInt(file.size))
           @@ (K_type :> PyStr(GetFileType(file.name)))
           @@ (K_is_documentation :> PyBool(IsDocumentation(file.name))))

\* should_include, lines 71-79: the statistics after the size test
Sized(s, file, limit) ==
    IF file.size > limit
    THEN Add(Add(Add(s, K_total_size, file.size), K_skipped_size, file.size), K_skipped_files, 1)
    ELSE Add(s, K_total_size, file.size)

\* should_include
ShouldInclude(file, limit) == ~Excluded(file.name) /\ file.size <= limit /\ Wanted(file)

\* lines 130-148 for one file of the walk
Visit(file, limit) ==
    IF Excluded(file.name) THEN UNCHANGED <<stats, extracted_files>>
    ELSE IF ~ShouldInclude(file, limit)
        THEN stats' = Sized(stats, file, limit) /\ UNCHANGED extracted_files
    ELSE IF file.readable
        THEN /\ extracted_files' = Append(extracted_files, FileEntry(file))
             /\ stats' = Add(Sized(stats, file, limit), K_processed_files, 1)
    ELSE /\ stats' = Add(Sized(stats, file, limit), K_skipped_files, 1)
         /\ UNCHANGED extracted_files

\* the next file of the walk
VisitFile ==
    /\ called = "convert_repository" /\ pc = "walk"
    /\ walked < Len(tree)
    /\ walked' = walked + 1
    /\ Visit(tree[walked + 1], args.max_size * Mebibyte)
    /\ UNCHANGED <<blocks, content, yaml_ok, pc, called, response_type, parser_used,
                   parsed_data, result, args, validation_results, branch_name,
                   applied_patches, attempts, repo, written, tree, analysis>>

\* extract_files, lines 150-153, and line 44 of convert_repository
EndExtract ==
    /\ called = "convert_repository" /\ pc = "walk"
    /\ walked = Len(tree)
    /\ \E now \in Ticks :
          /\ now >= stats.v[K_start_time].v
          /\ stats' = Put(Put(stats, K_total_files, PyInt(Len(extracted_files))),
                          K_end_time, PyDatetime(now))
    /\ pc' = IF ~args.no_sanitize THEN "sanitize" ELSE "generate"
    /\ UNCHANGED <<blocks, content, yaml_ok, called, response_type, parser_used, parsed_data,
                   result, args, validation_results, branch_name, applied_patches, attempts,
                   repo, written, tree, extracted_files, analysis, walked>>

\* lines 45-46: the sanitizer returns the files with their content cleaned,
\* or raises
Sanitize ==
    /\ called = "convert_repository" /\ pc = "sanitize"
    /\ \/ pc' = "generate" /\ UNCHANGED result
       \/ ConvertFails("SanitizerError")
    /\ UNCHANGED <<blocks, content, yaml_ok, called, response_type, parser_used, parsed_data,
                   args, validation_results, branch_name, applied_patches, attempts, repo,
                   written, tree, stats, extracted_files, analysis, walked>>

\* the files generate_outputs writes (lines 216-246), by the key it returns
\* each under
Outputs ==
    (K_codebase :> "codebase.txt") @@ (K_documentation :> "documentation.txt")
    @@ (K_structure :> "structure.txt") @@ (K_summary :> "summary.md")

\* line 50
GenerateOutputs ==
    /\ called = "convert_repository" /\ pc = "generate"
    /\ written' = written \cup {Outputs[k] : k \in DOMAIN Outputs}
    /\ pc' = "metadata"
    /\ UNCHANGED <<blocks, content, yaml_ok, called, response_type, parser_used, parsed_data,
                   result, args, validation_results, branch_name, applied_patches, attempts,
                   repo, tree, stats, extracted_files, analysis, walked>>

\* lines 53-62
ConvertMetadata ==
    PyDict((K_repo_path :> PyStr(<<"/", "r", "e", "p", "o">>)) @@ (K_analysis :> analysis)
           @@ (K_file_stats :> stats)
           @@ (K_config :> PyDict((K_max_file_size :> PyInt(args.max_size))
                                  @@ (K_sanitization_enabled :> PyBool(~args.no_sanitize))
                                  @@ (K_docs_included :> PyBool(args.include_docs)))))

\* the types json.dumps has an encoding for
JsonTypes == {"str", "int", "bool", "none", "list", "dict"}

\* json.dumps can encode the value: the default encoder raises TypeError on
\* any object of another type, wherever it sits in the value
RECURSIVE Serializable(_)
Serializable(value) ==
    /\ value.t \in JsonTypes
    /\ value.t = "list" => \A k \in 1..Len(value.v) : Serializable(value.v[k])
    /\ value.t = "dict" => \A key \in DOMAIN value.v : Serializable(value.v[key])

MetadataFile == "metadata.json"

\* lines 71-76
Converted ==
    PyDict((K_success :> PyBool(TRUE)) @@ (K_output_dir :> PyStr(<<"/", "o", "u", "t">>))
           @@ (K_files :> PyDict([k \in DOMAIN Outputs |-> PyStr(k)]))
           @@ (K_analysis :> analysis))

\* lines 64-76: the metadata are encoded and written, and the command returns
SaveMetadata ==
    /\ called = "convert_repository" /\ pc = "metadata"
    /\ IF Serializable(ConvertMetadata)
       THEN /\ written' = written \cup {MetadataFile}
            /\ result' = Converted
            /\ pc' = "returned"
       ELSE /\ ConvertFails("TypeError")
            /\ UNCHANGED written
    /\ UNCHANGED <<blocks, content, yaml_ok, called, response_type, parser_used, parsed_data,
                   args, validation_results, branch_name, applied_patches, attempts, repo,
                   tree, stats, extracted_files, analysis, walked>>

InitConvert ==
    /\ blocks = <<>>
    /\ content = <<>>
    /\ yaml_ok = FALSE
    /\ pc = "ready"
    /\ called = "none"
    /\ response_type = <<>>
    /\ parser_used = "none"
    /\ parsed_data = None
    /\ result = None
    /\ args \in ConvertArgs
    /\ tree \in Trees
    /\ AtStart

NextConvert ==
    \/ Construct
    \/ Analyze
    \/ StartExtract
    \/ VisitFile
    \/ EndExtract
    \/ Sanitize
    \/ GenerateOutputs
    \/ SaveMetadata

SpecConvert == InitConvert /\ [][NextConvert]_vars
-----------------------------------------------------------------------------
(* Properties.  What a response holds is read off its fragments, what the  *)
(* program made of it off the variables.                                    *)

\* the call of method m has returned
Returned(m) == called = m /\ pc = "returned"

Fragment(n) == Pool[blocks[n]]

\* fragment n is a fenced block whose tag is one of tags
IsFence(n, tags) == Fragment(n).kind = "fence" /\ Fragment(n).tag \in tags

PatchTags == {<<"p", "a", "t", "c", "h">>, <<"d", "i", "f", "f">>}

ClassifierTags == PatchTags \cup {<<"j", "s", "o", "n">>}

\* the position in content of the first '---' of fragment n, 0 when it has none
DashesAt(n) ==
    IF Fragment(n).kind \in {"front_matter", "raw_diff"} THEN Offset(blocks, n)
    ELSE IF Fragment(n).kind = "fence" /\ Fragment(n).path # <<>>
        THEN Offset(blocks, n) + Len(Fragment(n).tag) + 4
    ELSE 0

\* the response is one JSON document
IsJsonText == Len(blocks) = 1 /\ Fragment(1).kind \in {"json_object", "json_array"}

\* a '---' stands within the first 100 characters
MarkerEarly == \E n \in 1..Len(blocks) : DashesAt(n) # 0 /\ DashesAt(n) + 2 <= 100

\* C1: for every non-empty text parse_response runs to the end and returns a
\* record; no exception propagates out of it
C1_NoExceptionEscapes ==
    (called = "parse_response" /\ content # <<>>) => pc # "raised"

\* C2: in every record parse_response returns, `patches` is the patch
\* extractor's output on the full text and `commits` the commit extractor's,
\* whatever the shape parser produced under those keys
C2_ExtractorsAlwaysAttached ==
    Returned("parse_response") =>
        /\ result.t = "dict"
        /\ {K_patches, K_commits} \subseteq DOMAIN result.v
        /\ result.v[K_patches] = PyList(ExtractPatches(content))
        /\ result.v[K_commits] = PyList(MapSeq(ExtractCommitMessages(content), PyStr))

\* a record is returned whose shape parser had put its own value under `patches`
C2_Witness ==
    /\ Returned("parse_response")
    /\ response_type = K_json
    /\ K_patches \in DOMAIN JsonLoads(content).v
    /\ JsonLoads(content).v[K_patches] # result.v[K_patches]

\* C3: the classifier returns the tag of the first rule that matches, in the
\* order json, yaml, mixed, markdown, and 'text' when none matches; a failed
\* parse attempt only moves on to the next rule
C3_ClassifierOrder ==
    (called = "parse_response" /\ pc # "ready") =>
        /\ response_type \in {K_json, K_yaml, K_mixed, K_markdown, K_text}
        /\ response_type =
              IF IsJsonText THEN K_json
              ELSE IF MarkerEarly /\ yaml_ok THEN K_yaml
              ELSE IF \E n \in 1..Len(blocks) : IsFence(n, ClassifierTags) THEN K_mixed
              ELSE IF \E n \in 1..Len(blocks) : Fragment(n).kind = "heading" THEN K_markdown
              ELSE K_text

\* a text that opens like JSON and holds an early '---' fails both parse
\* attempts and is classified by its fence
C3_Witness ==
    /\ called = "parse_response"
    /\ pc = "dispatch"
    /\ LooksLikeJson(content)
    /\ MarkerEarly
    /\ ~yaml_ok
    /\ response_type = K_mixed

\* the parser the registry holds for a tag, 'text' for the tag that has none
ExpectedParser ==
    CASE response_type = K_json -> "json"
      [] response_type = K_markdown -> "markdown"
      [] response_type = K_mixed -> "mixed"
      [] response_type = K_text -> "text"
      [] response_type = K_yaml -> "text"

\* C4 as stated: for each of the five tags the partial record comes from the
\* shape parser of that same tag
C4_ParserOfSameTag ==
    parser_used # "none" =>
        parser_used = CASE response_type = K_json -> "json"
                        [] response_type = K_markdown -> "markdown"
                        [] response_type = K_mixed -> "mixed"
                        [] response_type = K_text -> "text"
                        [] response_type = K_yaml -> "yaml"

\* C4, amended: for the tags json, mixed, markdown and text the partial record
\* comes from the shape parser of that tag and for the tag yaml, which has no
\* parser, from the text parser; no second parser is tried, the tag does not
\* change after classification, and metadata.response_type of a returned
\* record is the classifier's tag
C4_SingleDispatch ==
    /\ [](parser_used # "none" => parser_used = ExpectedParser)
    /\ [](Returned("parse_response") =>
             result.v[K_metadata].v[K_response_type] = PyStr(response_type))
    /\ [][(parser_used # "none" => parser_used' = parser_used)
          /\ (response_type # <<>> => response_type' = response_type)]_vars

\* a record is returned for a text classified as yaml
C4_Witness ==
    /\ Returned("parse_response")
    /\ response_type = K_yaml
    /\ parser_used = "text"

\* C5 as stated: every record parse_response returns holds changes, patches,
\* commits, summary, the sections / details mapping and metadata
C5_AllFieldsPresent ==
    Returned("parse_response") =>
        /\ {K_changes, K_patches, K_commits, K_summary, K_metadata} \subseteq DOMAIN result.v
        /\ K_sections \in DOMAIN result.v \/ K_details \in DOMAIN result.v

\* C5, amended: every record parse_response returns holds patches, commits
\* and metadata; beyond these it holds changes, summary and details after the
\* markdown parser, raw_content, changes and summary after the text parser,
\* changes, code_blocks and sections after the mixed parser, and the keys of
\* the JSON object after the JSON parser
C5_FieldsByParser ==
    Returned("parse_response") =>
        /\ {K_patches, K_commits, K_metadata} \subseteq DOMAIN result.v
        /\ parser_used = "markdown" =>
              {K_changes, K_summary, K_details} \subseteq DOMAIN result.v
        /\ parser_used = "text" =>
              {K_raw_content, K_changes, K_summary} \subseteq DOMAIN result.v
        /\ parser_used = "mixed" =>
              {K_changes, K_code_blocks, K_sections} \subseteq DOMAIN result.v
        /\ parser_used = "json" =>
              DOMAIN JsonLoads(content).v \subseteq DOMAIN result.v

\* a record without summary and one without sections and details are returned
C5_Witness ==
    /\ Returned("parse_response")
    /\ parser_used = "text"
    /\ K_sections \notin DOMAIN result.v
    /\ K_details \notin DOMAIN result.v

\* C6: each shape parser, called on any text, returns a mapping and raises
\* no exception
C6_ParsersNeverRaise ==
    called \in ShapeParsers =>
        /\ pc # "raised"
        /\ pc = "returned" => result.t = "dict"

\* C7: the commit extractor returns the first 5 entries of the list of the
\* captures longer than 10 characters, concatenated in family order, with
\* every repeat of a string removed and its first occurrence kept; so the
\* result has at most 5 entries, no string twice, and a message repeated in
\* the input appears once
C7_CommitMessages ==
    Returned("_extract_commit_messages") =>
        LET all == CommitCandidates(content)
            r == result.v
            \* the places of all where a string occurs for the first time
            fresh == {i \in 1..Len(all) : \A j \in 1..(i - 1) : all[j] # all[i]}
        IN  /\ Len(r) <= 5
            /\ \A i, j \in 1..Len(r) : i # j => r[i] # r[j]
            /\ Len(r) = Min({5, Cardinality(fresh)})
            /\ \A k \in 1..Len(r) :
                  \E i \in fresh : /\ r[k] = PyStr(all[i])
                                   /\ Cardinality({j \in fresh : j < i}) = k - 1
            /\ \A n \in 1..Len(blocks) :
                  (Fragment(n).kind = "commit" /\ Fragment(n).body # <<>>) =>
                      Cardinality({k \in 1..Len(r) : r[k] = PyStr(Fragment(n).body)}) = 1

\* the extractor returns for a text with more than 5 different messages, one
\* of them repeated
C7_Witness ==
    /\ Returned("_extract_commit_messages")
    /\ LET all == CommitCandidates(content)
           fresh == {i \in 1..Len(all) : \A j \in 1..(i - 1) : all[j] # all[i]}
       IN  Cardinality(fresh) > 5 /\ Len(all) > Cardinality(fresh)
    /\ Len(result.v) = 5

\* the fenced patch / diff blocks of the response, in document order
FencedPatches == {n \in 1..Len(blocks) : IsFence(n, PatchTags)}

FencedPatch(k) == CHOOSE n \in FencedPatches : Cardinality({m \in FencedPatches : m < n}) = k - 1

\* the records of the given format in what _extract_patches returned
RecordsOf(format) == {k \in 1..Len(result.v) : result.v[k].v[K_format] = PyStr(format)}

\* C8: the PatchRecord built for a fenced patch / diff block has the block
\* body as content, format 'unified_diff', and as file the a-side path of the
\* block's header pair, 'unknown' when it has none
C8_FencedPatchRecord ==
    Returned("_extract_patches") =>
        /\ Len(result.v) >= Cardinality(FencedPatches)
        /\ \A k \in 1..Cardinality(FencedPatches) :
              LET rec == result.v[k].v
                  block == Fragment(FencedPatch(k))
              IN  /\ rec[K_content] = PyStr(block.body)
                  /\ rec[K_format] = PyStr(K_unified_diff)
                  /\ rec[K_file] = PyStr(IF block.path = <<>> THEN K_unknown ELSE block.path)

\* C9: the patch extractor reports each diff of the text once: one
\* unified_diff record per fenced patch / diff block, per raw diff and per
\* hunk that lies outside them
C9_EachDiffOnce ==
    Returned("_extract_patches") =>
        Cardinality(RecordsOf(K_unified_diff))
            = Cardinality({n \in 1..Len(blocks) :
                              IsFence(n, PatchTags) \/ Fragment(n).kind \in {"raw_diff", "hunk"}})

\* C10: every Replace line gives one record whose content is '-<old>',
\* newline, '+<new>' with the whole <old> and <new>, file 'unknown', format
\* 'simple_replace'; these records come after all unified_diff records
C10_ReplaceRecords ==
    Returned("_extract_patches") =>
        LET replaces == {n \in 1..Len(blocks) : Fragment(n).kind = "replace"}
        IN  /\ Cardinality(RecordsOf(K_simple_replace)) = Cardinality(replaces)
            /\ \A n \in replaces :
                  \E k \in 1..Len(result.v) :
                      result.v[k] =
                          PyDict((K_content :> PyStr(<<"-">> \o Fragment(n).old
                                                     \o <<NL, "+">> \o Fragment(n).new))
                                 @@ (K_file :> PyStr(K_unknown))
                                 @@ (K_format :> PyStr(K_simple_replace)))
            /\ \A i \in RecordsOf(K_simple_replace), j \in RecordsOf(K_unified_diff) : j < i


\* the heading fragments of the response that carry the given title
Titles(title) == {n \in 1..Len(blocks) : Fragment(n).kind = "heading" /\ Fragment(n).tag = title}

\* the position that follows the text of the section fragment n opens: the
\* newline before the next heading, or the end of the text
SectionEnd(n) ==
    LET later == {m \in (n + 1)..Len(blocks) : Fragment(m).kind = "heading"}
    IN  IF later = {} THEN Len(content) + 1 ELSE Offset(blocks, Min(later)) - 1

\* the body of the section fragment n opens: the text between its heading
\* line and the next heading, trimmed
BodyUnder(n) ==
    Strip(Sub(content, Offset(blocks, n) + Len(Fragment(n).tag) + 4, SectionEnd(n) - 1))

\* the last section of the response with the given title
LastTitled(title) == Max(Titles(title))

\* C11: for a markdown document with the headings '## Changes', '## Summary'
\* and '## Notes', in any order and whether or not a heading is its first
\* line, the markdown parser sets `summary` to the Summary body, `changes` to
\* the heuristic extraction over the Changes body, and stores the Notes body
\* under the key 'Notes' of `details`
C11_MarkdownSections ==
    Returned("markdown") =>
        /\ Titles(<<"S", "u", "m", "m", "a", "r", "y">>) # {} =>
              result.v[K_summary] = PyStr(BodyUnder(LastTitled(<<"S", "u", "m", "m", "a", "r", "y">>)))
        /\ Titles(<<"C", "h", "a", "n", "g", "e", "s">>) # {} =>
              result.v[K_changes] =
                  PyList(ExtractChangesFromText(BodyUnder(LastTitled(<<"C", "h", "a", "n", "g", "e", "s">>))))
        /\ Titles(<<"N", "o", "t", "e", "s">>) # {} =>
              /\ <<"N", "o", "t", "e", "s">> \in DOMAIN result.v[K_details].v
              /\ result.v[K_details].v[<<"N", "o", "t", "e", "s">>]
                     = PyStr(BodyUnder(LastTitled(<<"N", "o", "t", "e", "s">>)))

\* the fenced json blocks of the response
JsonFences == {n \in 1..Len(blocks) : IsFence(n, {<<"j", "s", "o", "n">>})}

\* the items the fenced json blocks from fragment n on hold for `changes`
RECURSIVE ItemsFrom(_)
ItemsFrom(n) ==
    IF n > Len(blocks) THEN <<>>
    ELSE (IF n \in JsonFences THEN Fragment(n).items ELSE <<>>) \o ItemsFrom(n + 1)

\* the keys the fenced json blocks hold for the result
MergedKeys == UNION {DOMAIN Fragment(n).keys : n \in JsonFences}

\* the last fenced json block that holds the key
LastWith(key) == Max({n \in JsonFences : key \in DOMAIN Fragment(n).keys})

\* C12: the mixed parser folds the fenced json blocks in document order: the
\* items of a sequence and the items under `changes` of a mapping are
\* appended to `changes`, the other keys of such a mapping are ignored, the
\* keys of any other mapping are merged into the result, a later block's
\* value replacing an earlier one's, and a block that does not parse is
\* skipped without affecting the blocks after it
C12_JsonBlocksFolded ==
    Returned("mixed") =>
        /\ result.v[K_changes] = PyList(ItemsFrom(1))
        /\ DOMAIN result.v = {K_changes, K_code_blocks, K_sections} \cup MergedKeys
        /\ \A key \in MergedKeys : result.v[key] = Fragment(LastWith(key)).keys[key]

\* the mixed parser returns for a text with two fenced json blocks that hold
\* different values for the same key
C12_Witness ==
    /\ Returned("mixed")
    /\ \E m, n \in JsonFences :
          /\ m < n
          /\ \E key \in DOMAIN Fragment(m).keys \cap DOMAIN Fragment(n).keys :
                /\ Fragment(m).keys[key] # Fragment(n).keys[key]
                /\ result.v[key] = Fragment(n).keys[key]

\* the entries of code_blocks the fenced blocks from fragment n on call for
RECURSIVE CodeBlocksFrom(_)
CodeBlocksFrom(n) ==
    IF n > Len(blocks) THEN <<>>
    ELSE (IF Fragment(n).kind = "fence" /\ n \notin JsonFences
          THEN <<PyDict((K_language :> PyStr(IF Fragment(n).tag = <<>> THEN K_text
                                             ELSE Fragment(n).tag))
                        @@ (K_content :> PyStr(Fragment(n).body)))>>
          ELSE <<>>) \o CodeBlocksFrom(n + 1)

\* C13: after the mixed parser ran, code_blocks has one entry per fenced
\* block that is not tagged json, in document order, with the block's body as
\* content and the block's tag, 'text' when it has none, as language; no
\* entry is made of text outside a fenced block
C13_CodeBlocks ==
    Returned("mixed") => result.v[K_code_blocks] = PyList(CodeBlocksFrom(1))

\* the entries due for the captures caps of one family: a capture is kept
\* when, trimmed, it is not empty and holds a '.'
RECURSIVE EntriesOf(_)
EntriesOf(caps) ==
    IF caps = <<>> THEN <<>>
    ELSE (IF Strip(Head(caps)) # <<>> /\ \E k \in 1..Len(Strip(Head(caps))) : Strip(Head(caps))[k] = "."
          THEN <<PyDict((K_file_path :> PyStr(Strip(Head(caps))))
                        @@ (K_change_type :> PyStr(<<"m", "o", "d", "i", "f", "y">>))
                        @@ (K_description :>
                               PyStr(<<"C", "h", "a", "n", "g", "e", " ", "d", "e", "t", "e", "c",
                                       "t", "e", "d", " ", "i", "n", " ">> \o Strip(Head(caps))))
                        @@ (K_source :> PyStr(<<"t", "e", "x", "t", "_", "e", "x", "t", "r", "a",
                                                "c", "t", "i", "o", "n">>)))>>
          ELSE <<>>) \o EntriesOf(Tail(caps))

\* the entries due for what family f finds in the fragments from n on
RECURSIVE FamilyEntries(_, _)
FamilyEntries(f, n) ==
    IF n > Len(blocks) THEN <<>>
    ELSE EntriesOf(Fragment(n).finds[f]) \o FamilyEntries(f, n + 1)

\* no 'File:' label without a path is followed by a line (the label would
\* take that line as its path)
LabelsComplete == \A n \in 1..(Len(blocks) - 1) : Fragment(n).kind # "label_only"

\* C14: _extract_changes_from_text returns one entry per match of each
\* pattern family, in family order and duplicates included, for the matches
\* whose trimmed capture is not empty and holds a '.'; an entry has the
\* trimmed capture as file_path, change_type 'modify', source
\* 'text_extraction' and a description naming the path
C14_ChangesPerMatch ==
    (Returned("_extract_changes_from_text") /\ LabelsComplete) =>
        result = PyList(FamilyEntries(1, 1) \o FamilyEntries(2, 1)
                        \o FamilyEntries(3, 1) \o FamilyEntries(4, 1))

\* the extractor returns for a text in which two families match the same
\* line, one path is named twice and one capture has no '.'
C14_Witness ==
    /\ Returned("_extract_changes_from_text")
    /\ LabelsComplete
    /\ \E i, j \in 1..Len(result.v) : i < j /\ result.v[i] = result.v[j]
    /\ \E n \in 1..Len(blocks) : \E c \in {Fragment(n).finds[1][k] : k \in 1..Len(Fragment(n).finds[1])} :
          \A k \in 1..Len(c) : c[k] # "."

\* process_llm_response is running or has ended
Processing == called = "process_llm_response"

\* the git layer was not asked for anything and no file was written
Untouched ==
    /\ repo = [branches |-> <<>>, patches |-> <<>>, scripts |-> <<>>]
    /\ attempts = <<>>
    /\ written = {}

\* C15: with --validate-only process_llm_response only validates: it creates
\* no branch and applies no patch, whatever --apply, --dry-run and
\* --create-branch are
C15_ValidateOnly ==
    (Processing /\ args.validate_only) =>
        /\ repo.branches = <<>>
        /\ attempts = <<>>
        /\ repo.patches = <<>>

\* C16: with --dry-run process_llm_response leaves the git state of the
\* repository as it is: it applies no patch and creates no branch, whatever
\* --apply and --create-branch are
C16_DryRun ==
    (Processing /\ args.dry_run) =>
        /\ attempts = <<>>
        /\ repo.patches = <<>>
        /\ repo.branches = <<>>

\* C17: when the response has a change and the validator returns a valid
\* patch (and the git layer creates the branch asked for),
\* process_llm_response returns success=True with the reports
\* implementation_report and summary_json, both files written; it never ends
\* by raising after patches were applied
C17_RunsToTheEnd ==
    /\ (Processing /\ pc \in {"returned", "raised"} /\ validation_results # None
        /\ validation_results.valid # <<>> /\ result # Raise("GitError")) =>
            /\ pc = "returned"
            /\ result.v[K_success] = PyBool(TRUE)
            /\ {K_implementation_report, K_summary_json} \subseteq DOMAIN result.v[K_reports].v
            /\ {ReportFile, SummaryFile} \subseteq written
    /\ ~(Processing /\ pc = "raised" /\ applied_patches # <<>>)

\* C19: when the parsed response has no changes, or has changes but no patch
\* is valid and validate_only is unset, process_llm_response returns
\* success=False with the matching error, having created no branch, applied
\* no patch, written no report and generated no commit script; without
\* changes the validator is not called
C19_FailureLeavesNoTrace ==
    (Processing /\ parsed_data.t = "dict") =>
        /\ ~Truthy(Changes) =>
              /\ pc = "returned"
              /\ result = PyDict((K_success :> PyBool(FALSE))
                                 @@ (K_error :> PyStr(K_no_changes_found)))
              /\ validation_results = None
              /\ Untouched
        /\ (Truthy(Changes) /\ validation_results # None /\ validation_results.valid = <<>>
            /\ ~args.validate_only) =>
              /\ pc = "returned"
              /\ result = PyDict((K_success :> PyBool(FALSE))
                                 @@ (K_error :> PyStr(K_no_valid_patches)))
              /\ Untouched

\* the command was asked to create a branch and to apply, the response has
\* changes, and no patch is valid
C19_Witness ==
    /\ Processing
    /\ pc = "returned"
    /\ Truthy(Changes)
    /\ validation_results # None /\ validation_results.valid = <<>>
    /\ parsed_data.v[K_patches].v # <<>>
    /\ args.apply /\ ~args.dry_run /\ ~args.validate_only /\ Truthy(args.create_branch)

\* C20: in the apply step every valid patch is tried once, in list order; a
\* patch whose application raises does not stop the patches after it;
\* applied_patches is the subsequence of the valid patches that were
\* applied; a commit script is generated only if a patch was applied and the
\* response has commit messages
C20_ApplyLoop ==
    (Processing /\ validation_results # None) =>
        /\ Len(attempts) <= Len(validation_results.valid)
        /\ \A k \in 1..Len(attempts) : attempts[k].patch = validation_results.valid[k]
        /\ (attempts # <<>>) => (args.apply /\ ~args.dry_run)
        /\ (ReportFile \in written /\ args.apply /\ ~args.dry_run) =>
              Len(attempts) = Len(validation_results.valid)
        /\ LET done == SelectSeq(attempts, LAMBDA a : a.applied)
           IN  /\ applied_patches = [k \in 1..Len(done) |-> done[k].patch]
               /\ repo.patches = [k \in 1..Len(done) |-> done[k].patch.v[K_content]]
        /\ repo.scripts # <<>> =>
              applied_patches # <<>> /\ Truthy(Get(parsed_data.v, K_commits, None))

\* the loop is over, the first patch having failed and the second not
C20_Witness ==
    /\ Processing
    /\ ReportFile \in written
    /\ Len(attempts) >= 2
    /\ ~attempts[1].applied
    /\ attempts[2].applied
    /\ Len(applied_patches) < Len(attempts)

\* C18: when the analysis, the extraction, the sanitization and the output
\* generation have all succeeded, convert_repository writes metadata.json
\* and returns success=True; encoding the metadata, with the statistics
\* extract_files recorded, raises nothing
C18_MetadataSaved ==
    (called = "convert_repository" /\ pc \in {"returned", "raised"}
     /\ Outputs[K_summary] \in written) =>
        /\ pc = "returned"
        /\ result.v[K_success] = PyBool(TRUE)
        /\ MetadataFile \in written
====
